---- MODULE Spec2Model ----
EXTENDS Integers, Sequences, FiniteSets, TLC

\* A model of the calculator of Norwegian salary and dividend taxation:
\* its rate tables (config/taxRates.js), its salary, dividend and combination
\* calculators and the search for the best ratio (calculations/), its input
\* validation (validation/inputValidation.js), the comparison of scenarios
\* (calculations/scenarioComparison.js) and the endpoints of its server
\* (server.js).
\*
\* The program computes in the numbers of its language, which are binary
\* floating-point numbers of 64 bits, and rounds what it returns with
\* Math.round. The model computes in the same numbers: a number is a sign, a
\* mantissa of 53 bits and an exponent, every operation rounds its exact
\* result to the nearest number (ties to even), and the conversions between
\* numbers and texts are those of Number() and String(). A value of the
\* program is a record with its type; what a function throws is a record
\* with the message.

\* ------------------------------------------------------------------------
\* Natural numbers of any size
\* ------------------------------------------------------------------------

\* a natural number is the sequence of its digits in base Base, the least
\* significant first, without leading zero digits; 0 is << >>; a digit has
\* 14 bits
Digits == [bits |-> 14, base |-> 2 ^ 14]

LimbBits == Digits.bits

Base == Digits.base

\* digit i of a, 0 beyond its length
Limb(a, i) == IF i >= 1 /\ i <= Len(a) THEN a[i] ELSE 0

\* the number of digits of a up to its highest digit that is not 0
BigLen(a) == Cardinality({i \in 1..Len(a) : \E j \in i..Len(a) : a[j] # 0})

BigTrimmed(a) == SubSeq(a, 1, BigLen(a))

BigTrim(a) == BigTrimmed(a \o << >>)

\* a whole number below 2^31 as digits, and back
BigOfInt(n) == BigTrim(<<n % Base, (n \div Base) % Base, n \div (Base * Base)>>)

BigToInt(a) == Limb(a, 1) + Base * Limb(a, 2) + Base * Base * Limb(a, 3)

\* the number whose digit i is c[i] before carrying, every c[i] below 2^30;
\* st is <<the digits so far, the carry into the next digit>>
RECURSIVE BigCarried(_, _)
BigCarried(c, st) ==
  IF Len(st[1]) >= Len(c) /\ st[2] = 0 THEN st[1]
  ELSE BigCarried(c, <<Append(st[1], (Limb(c, Len(st[1]) + 1) + st[2]) % Base),
                       (Limb(c, Len(st[1]) + 1) + st[2]) \div Base>>)

BigOfColumns(c) == BigTrim(BigCarried(c \o << >>, << << >>, 0 >>))

BigAdd(a, b) ==
  BigOfColumns([i \in 1..(IF Len(a) >= Len(b) THEN Len(a) ELSE Len(b)) |->
                  Limb(a, i) + Limb(b, i)])

\* whether the digits below digit i borrow from it when b is taken from a
BigBorrow(a, b, i) ==
  \E j \in 1..(i - 1) :
    /\ a[j] < Limb(b, j)
    /\ \A k \in (j + 1)..(i - 1) : a[k] <= Limb(b, k)

\* a - b for a >= b
BigSub(a, b) ==
  BigTrim([i \in 1..Len(a) |->
             (a[i] - Limb(b, i) - (IF BigBorrow(a, b, i) THEN 1 ELSE 0)) % Base])

\* -1, 0 or 1 as a is below, equal to or above b
BigCmpAt(a, b, i) == IF a[i] < b[i] THEN -1 ELSE 1

BigCmp(a, b) ==
  IF Len(a) < Len(b) THEN -1
  ELSE IF Len(a) > Len(b) THEN 1
  ELSE IF a = b THEN 0
  ELSE BigCmpAt(a, b, CHOOSE i \in 1..Len(a) :
                        a[i] # b[i] /\ \A j \in (i + 1)..Len(a) : a[j] = b[j])

\* a * k for a digit k
BigMulSmall(a, k) == BigOfColumns([i \in 1..Len(a) |-> a[i] * k])

\* a * b for a of at most four digits
BigMul(a, b) ==
  IF a = << >> \/ b = << >> THEN << >>
  ELSE BigOfColumns([i \in 1..(Len(a) + Len(b) - 1) |->
                       Limb(a, 1) * Limb(b, i) + Limb(a, 2) * Limb(b, i - 1)
                         + Limb(a, 3) * Limb(b, i - 2) + Limb(a, 4) * Limb(b, i - 3)])

\* a * 2^n
BigShl(a, n) ==
  IF a = << >> THEN a
  ELSE [i \in 1..(n \div LimbBits) |-> 0] \o BigMulSmall(a, 2 ^ (n % LimbBits))

\* floor(a / 2^r) for r below LimbBits, without the q lowest digits of a
BigHalved(a, q, r) ==
  BigTrim([i \in 1..(Len(a) - q) |->
             (a[i + q] \div (2 ^ r))
               + ((Limb(a, i + q + 1) % (2 ^ r)) * (2 ^ (LimbBits - r)))])

\* floor(a / 2^n)
BigShr(a, n) ==
  IF n \div LimbBits >= Len(a) THEN << >>
  ELSE BigHalved(a, n \div LimbBits, n % LimbBits)

\* bit n of a, bit 0 the least significant
BigBit(a, n) == (Limb(a, (n \div LimbBits) + 1) \div (2 ^ (n % LimbBits))) % 2

\* whether the n lowest bits of a are all 0
BigLowBitsZero(a, n) ==
  /\ \A i \in 1..(n \div LimbBits) : Limb(a, i) = 0
  /\ Limb(a, (n \div LimbBits) + 1) % (2 ^ (n % LimbBits)) = 0

\* the number of bits of a digit
BitsOf(d) == Cardinality({j \in 0..(LimbBits - 1) : 2 ^ j <= d})

\* the number of bits of a
BigBitLen(a) ==
  IF a = << >> THEN 0 ELSE (Len(a) - 1) * LimbBits + BitsOf(a[Len(a)])

\* <<quotient, remainder>> of u by v, for v whose highest digit is at least
\* Base / 2: the digits of u are brought down from the highest, each digit
\* of the quotient is estimated from the two highest digits of the running
\* remainder and lowered until it fits
RECURSIVE BigFit(_, _, _)
BigFitted(rem, v, qhat, product) ==
  IF BigCmp(product, rem) > 0 THEN BigFit(rem, v, qhat - 1)
  ELSE <<qhat, BigSub(rem, product)>>

BigFit(rem, v, qhat) == BigFitted(rem, v, qhat, BigMulSmall(v, qhat))

BigEstimate(top) == IF top >= Base THEN Base - 1 ELSE top

BigDivStep(rem, v) ==
  BigFit(rem, v,
         BigEstimate((Limb(rem, Len(v) + 1) * Base + Limb(rem, Len(v)))
                       \div v[Len(v)]))

\* the running state is <<digits of u still to bring down, quotient so far,
\* remainder so far>>
BigDivPlaced(st, step) == <<st[1] - 1, <<step[1]>> \o st[2], step[2]>>

BigDivNext(u, v, st) ==
  BigDivPlaced(st, BigDivStep(BigTrim(<<u[st[1]]>> \o st[3]), v))

RECURSIVE BigDivFrom(_, _, _)
BigDivFrom(u, v, st) ==
  IF st[1] = 0 THEN st ELSE BigDivFrom(u, v, BigDivNext(u, v, st))

BigDivResult(st, s) == <<BigTrim(st[2]), BigShr(st[3], s)>>

\* the digits of u above the lowest n, which are below v when n is
\* Len(u) - Len(v) + 1, start the remainder
BigDivNormal(un, vn, s) ==
  IF Len(un) < Len(vn) THEN <<<< >>, BigShr(un, s)>>
  ELSE BigDivResult(BigDivFrom(un, vn,
                               <<Len(un) - Len(vn) + 1, << >>,
                                 SubSeq(un, Len(un) - Len(vn) + 2, Len(un))>>), s)

BigDivShifted(u, v, s) == BigDivNormal(BigShl(u, s), BigShl(v, s), s)

\* <<floor(u / v), u mod v>> for v > 0
BigDivMod(u, v) == BigDivShifted(u, v, LimbBits - BitsOf(v[Len(v)]))

\* 5^n for n up to 24, a number of at most four digits
RECURSIVE BigPowerOfFive(_)
BigPowerOfFive(n) ==
  IF n = 0 THEN <<1>>
  ELSE BigMulSmall(BigPowerOfFive(n - (IF n >= 6 THEN 6 ELSE 1)),
                   IF n >= 6 THEN 15625 ELSE 5)

\* st[2] * 5^st[1]
RECURSIVE BigTimesPowerOfFiveFrom(_)
BigTimesPowerOfFiveFrom(st) ==
  IF st[1] = 0 THEN st[2]
  ELSE BigTimesPowerOfFiveFrom(
         <<st[1] - (IF st[1] <= 24 THEN st[1] ELSE 24),
           BigMul(BigPowerOfFive(IF st[1] <= 24 THEN st[1] ELSE 24), st[2])>>)

\* a * 5^n and a * 10^n
BigTimesPowerOfFive(a, n) == BigTimesPowerOfFiveFrom(<<n, a>>)

BigTimesPowerOfTen(a, n) == BigShl(BigTimesPowerOfFive(a, n), n)

\* ------------------------------------------------------------------------
\* The numbers of the language: IEEE 754 double precision
\* ------------------------------------------------------------------------

\* the format: the bits of a mantissa, the exponent 2^1024 no finite number
\* reaches and the exponent 2^-1074 of the least positive number
Binary64 == [mantissaBits |-> 53, maxExponent |-> 1024, minExponent |-> -1074]

MantissaBits == Binary64.mantissaBits

MaxExponent == Binary64.maxExponent

MinExponent == Binary64.minExponent

\* a number is NaN (k = "nan"), an infinity (k = "inf") or the finite value
\* sg * m * 2^e with sg in {-1, 1} and the mantissa m a natural number of
\* exactly 53 bits, or of fewer bits when e is MinExponent; a zero has the
\* mantissa << >>, the exponent 0 and a sign
DblZero(sg) == [t |-> "number", k |-> "fin", sg |-> sg, m |-> << >>, e |-> 0]

DblNaN == [t |-> "number", k |-> "nan", sg |-> 1, m |-> << >>, e |-> 0]

DblInf(sg) == [t |-> "number", k |-> "inf", sg |-> sg, m |-> << >>, e |-> 0]

\* the numbers
Doubles ==
  [t : {"number"}, k : {"fin", "nan", "inf"}, sg : {-1, 1},
   m : Seq(0 .. (Base - 1)), e : Int]

DblIsZero(x) == x.k = "fin" /\ x.m = << >>

\* the number sg * m * 2^e for a mantissa of bits bits, 53 of them or, after
\* a rounding that carried, 54
DblCarried(sg, m, e, bits) ==
  IF m = << >> THEN DblZero(sg)
  ELSE IF e + bits > MaxExponent THEN DblInf(sg)
  ELSE IF bits > MantissaBits
  THEN [t |-> "number", k |-> "fin", sg |-> sg, m |-> BigShr(m, 1), e |-> e + 1]
  ELSE [t |-> "number", k |-> "fin", sg |-> sg, m |-> m, e |-> e]

DblPacked(sg, m, e) == DblCarried(sg, m, e, BigBitLen(m))

\* a with its shift lowest bits rounded off to the nearest, ties to even;
\* sticky tells whether more was cut off below a already
DblRoundedOff(a, shift, sticky, q) ==
  IF /\ BigBit(a, shift - 1) = 1
     /\ (sticky \/ ~BigLowBitsZero(a, shift - 1) \/ BigBit(q, 0) = 1)
  THEN BigAdd(q, <<1>>)
  ELSE q

DblCut(sg, a, e, sticky, shift) ==
  DblPacked(sg,
            IF shift <= 0 THEN BigShl(a, -shift)
            ELSE DblRoundedOff(a, shift, sticky, BigShr(a, shift)),
            e + shift)

\* the shift that leaves 53 bits of a number of bits bits at the exponent
\* e, or fewer at the least exponent
DblShift(bits, e) ==
  IF bits - MantissaBits >= MinExponent - e THEN bits - MantissaBits
  ELSE MinExponent - e

\* the double nearest to sg * (a + f) * 2^e, ties to even, where 0 <= f < 1
\* and sticky tells whether f > 0; a has at least 55 bits when sticky holds
DblRound(sg, a, e, sticky) == DblCut(sg, a, e, sticky, DblShift(BigBitLen(a), e))

\* the double nearest to sg * (num / den) * 2^e for natural numbers num and
\* den that are not 0
DblRatioOf(sg, e, shift, qr) == DblRound(sg, qr[1], e - shift, qr[2] # << >>)

DblRatioShifted(sg, num, den, e, shift) ==
  DblRatioOf(sg, e, shift, BigDivMod(BigShl(num, shift), den))

DblRatio(sg, num, den, e) ==
  DblRatioShifted(sg, num, den, e,
                  IF BigBitLen(num) >= BigBitLen(den) + 56 THEN 0
                  ELSE 56 + BigBitLen(den) - BigBitLen(num))

\* the double of a whole number below 2^31 in size
DblOfNatural(sg, n, bits) ==
  IF n = 0 THEN DblZero(sg)
  ELSE [t |-> "number", k |-> "fin", sg |-> sg,
        m |-> BigShl(BigOfInt(n), MantissaBits - bits), e |-> bits - MantissaBits]

DblOfInt(n) ==
  DblOfNatural(IF n < 0 THEN -1 ELSE 1, IF n < 0 THEN -n ELSE n,
               Cardinality({j \in 0..30 : 2 ^ j <= n \/ 2 ^ j <= -n}))

\* -x
DblNeg(x) == IF x.k = "nan" THEN x ELSE [x EXCEPT !.sg = -x.sg]

\* x * y
DblMul(x, y) ==
  IF x.k = "nan" \/ y.k = "nan" THEN DblNaN
  ELSE IF x.k = "inf" \/ y.k = "inf"
  THEN IF DblIsZero(x) \/ DblIsZero(y) THEN DblNaN ELSE DblInf(x.sg * y.sg)
  ELSE IF x.m = << >> \/ y.m = << >> THEN DblZero(x.sg * y.sg)
  ELSE DblRound(x.sg * y.sg, BigMul(x.m, y.m), x.e + y.e, FALSE)

\* x / y
DblDiv(x, y) ==
  IF x.k = "nan" \/ y.k = "nan" THEN DblNaN
  ELSE IF x.k = "inf"
  THEN IF y.k = "inf" THEN DblNaN ELSE DblInf(x.sg * y.sg)
  ELSE IF y.k = "inf" THEN DblZero(x.sg * y.sg)
  ELSE IF y.m = << >>
  THEN IF x.m = << >> THEN DblNaN ELSE DblInf(x.sg * y.sg)
  ELSE IF x.m = << >> THEN DblZero(x.sg * y.sg)
  ELSE DblRatio(x.sg * y.sg, x.m, y.m, x.e - y.e)

\* x + y for finite x and y that are not 0, x having the exponent that is
\* not the smaller; a and b are the mantissas at the exponent of y and cmp
\* tells which is larger
DblSummed(x, y, a, b, cmp) ==
  DblRound(IF x.sg = y.sg \/ cmp > 0 THEN x.sg ELSE IF cmp = 0 THEN 1 ELSE y.sg,
           IF x.sg = y.sg THEN BigAdd(a, b)
           ELSE BigSub(IF cmp >= 0 THEN a ELSE b, IF cmp >= 0 THEN b ELSE a),
           y.e, FALSE)

DblAligned(x, y, a) == DblSummed(x, y, a, y.m, BigCmp(a, y.m))

DblAddAligned(x, y) ==
  IF x.e - y.e > MantissaBits + 2 THEN x
  ELSE DblAligned(x, y, BigShl(x.m, x.e - y.e))

\* x + y
DblAdd(x, y) ==
  IF x.k = "nan" \/ y.k = "nan" THEN DblNaN
  ELSE IF x.k = "inf"
  THEN IF y.k = "inf" /\ y.sg # x.sg THEN DblNaN ELSE x
  ELSE IF y.k = "inf" THEN y
  ELSE IF x.m = << >>
  THEN IF y.m = << >> THEN DblZero(IF x.sg = y.sg THEN x.sg ELSE 1) ELSE y
  ELSE IF y.m = << >> THEN x
  ELSE DblAddAligned(IF x.e >= y.e THEN x ELSE y, IF x.e >= y.e THEN y ELSE x)

\* x - y
DblSub(x, y) == DblAdd(x, DblNeg(y))

\* where a number stands among the infinities, the negative and positive
\* finite numbers and 0
DblRank(x) ==
  IF x.k = "inf" THEN 2 * x.sg ELSE IF x.m = << >> THEN 0 ELSE x.sg

\* -1, 0 or 1 as |x| is below, equal to or above |y|, for finite x and y
\* that are not 0
DblCmpMagnitude(x, y) ==
  IF x.e # y.e THEN (IF x.e < y.e THEN -1 ELSE 1) ELSE BigCmp(x.m, y.m)

\* -1, 0 or 1 as x is below, equal to or above y, for x and y that are not NaN
DblCmp(x, y) ==
  IF DblRank(x) # DblRank(y) THEN (IF DblRank(x) < DblRank(y) THEN -1 ELSE 1)
  ELSE IF x.k = "inf" \/ x.m = << >> THEN 0
  ELSE x.sg * DblCmpMagnitude(x, y)

\* x < y, x <= y, x > y, x >= y and x === y: false when either is NaN
DblLess(x, y) == x.k # "nan" /\ y.k # "nan" /\ DblCmp(x, y) < 0

DblLeq(x, y) == x.k # "nan" /\ y.k # "nan" /\ DblCmp(x, y) <= 0

DblGreater(x, y) == DblLess(y, x)

DblGeq(x, y) == DblLeq(y, x)

DblEq(x, y) == x.k # "nan" /\ y.k # "nan" /\ DblCmp(x, y) = 0

\* Math.min(x, y) and Math.max(x, y); -0 is below +0
MathMin(x, y) ==
  IF x.k = "nan" \/ y.k = "nan" THEN DblNaN
  ELSE IF DblCmp(x, y) < 0 THEN x
  ELSE IF DblCmp(x, y) > 0 THEN y
  ELSE IF x.sg < 0 THEN x ELSE y

MathMax(x, y) ==
  IF x.k = "nan" \/ y.k = "nan" THEN DblNaN
  ELSE IF DblCmp(x, y) > 0 THEN x
  ELSE IF DblCmp(x, y) < 0 THEN y
  ELSE IF x.sg > 0 THEN x ELSE y

\* Math.round(x) for a finite x with t > 0 bits behind the point: the whole
\* number nearest to x, a half going up
MathRoundNearest(x, t) ==
  IF t > MantissaBits THEN DblZero(x.sg)
  ELSE DblRound(x.sg,
                BigAdd(BigShr(x.m, t),
                       IF BigBit(x.m, t - 1) = 1
                          /\ (x.sg > 0 \/ ~BigLowBitsZero(x.m, t - 1))
                       THEN <<1>> ELSE << >>),
                0, FALSE)

\* Math.round(x)
MathRound(x) ==
  IF x.k # "fin" \/ x.m = << >> \/ x.e >= 0 THEN x ELSE MathRoundNearest(x, -x.e)

\* whether a finite x is a whole number
DblIsWhole(x) == x.m = << >> \/ x.e >= 0 \/ BigLowBitsZero(x.m, -x.e)

\* |x| of a finite whole x as a natural number
DblWholePart(x) ==
  IF x.m = << >> THEN << >>
  ELSE IF x.e >= 0 THEN BigShl(x.m, x.e)
  ELSE BigShr(x.m, -x.e)

\* the integer a whole number below 2^31 in size stands for
DblToInt(x) == x.sg * BigToInt(DblWholePart(x))

\* ------------------------------------------------------------------------
\* The values of the language
\* ------------------------------------------------------------------------

\* A value has a type t. A number is a double, a string has the text s, a
\* boolean the truth value b, an object its properties in the record fields,
\* an array its elements in the sequence items, a function its name s.
JsUndefined == [t |-> "undefined"]

JsNull == [t |-> "null"]

JsBoolean(b) == [t |-> "boolean", b |-> b]

JsString(s) == [t |-> "string", s |-> s]

JsObject(fields) == [t |-> "object", fields |-> fields]

JsArray(items) == [t |-> "array", items |-> items]

\* a built-in function of the given name
JsFunction(name) == [t |-> "function", s |-> name]

JsNumber(n) == DblOfInt(n)

\* the number a decimal literal n/d of the source denotes (0.141 is the
\* double nearest to 141/1000)
JsFraction(n, d) == DblDiv(DblOfInt(n), DblOfInt(d))

NaN == DblNaN

Infinity == DblInf(1)

\* {}
EmptyObject == JsObject([x \in {} |-> JsUndefined])

\* the character of a text at a position
Char(s, i) == IF i >= 1 /\ i <= Len(s) THEN SubSeq(s, i, i) ELSE ""

\* the white space and line terminators Number() and trim() strip: space, tab,
\* line feed, carriage return, form feed, vertical tab (U+000B), no-break
\* space (U+00A0), ogham space mark (U+1680) and byte order mark (U+FEFF).
\* The space separators U+2000 to U+200A, U+2028, U+2029, U+202F, U+205F and
\* U+3000 cannot be written in a text of this notation
WhiteSpace == {" ", "\t", "\n", "\r", "\f", "", " ", " ", "﻿"}

RECURSIVE TrimStart(_)
TrimStart(s) ==
  IF s # "" /\ Char(s, 1) \in WhiteSpace THEN TrimStart(SubSeq(s, 2, Len(s)))
  ELSE s

RECURSIVE TrimEnd(_)
TrimEnd(s) ==
  IF s # "" /\ Char(s, Len(s)) \in WhiteSpace THEN TrimEnd(SubSeq(s, 1, Len(s) - 1))
  ELSE s

LowerDigits == "0123456789abcdef"

UpperDigits == "0123456789ABCDEF"

\* the value of a character as a digit of the radix, or -1
DigitValue(c, radix) ==
  IF \E i \in 1 .. radix : Char(LowerDigits, i) = c
  THEN (CHOOSE i \in 1 .. radix : Char(LowerDigits, i) = c) - 1
  ELSE IF \E i \in 1 .. radix : Char(UpperDigits, i) = c
  THEN (CHOOSE i \in 1 .. radix : Char(UpperDigits, i) = c) - 1
  ELSE -1

\* the digits of the radix a text has from position st.next on: the number
\* they make after the number st.value, how many they are, and the position
\* behind them
RECURSIVE ScanDigits(_, _, _)
ScanDigits(s, radix, st) ==
  IF st.next > Len(s) \/ DigitValue(Char(s, st.next), radix) < 0 THEN st
  ELSE ScanDigits(s, radix,
                  [value |-> BigAdd(BigMulSmall(st.value, radix),
                                    BigOfInt(DigitValue(Char(s, st.next), radix))),
                   count |-> st.count + 1,
                   next |-> st.next + 1])

DigitsFrom(s, i, radix, acc) ==
  ScanDigits(s, radix, [value |-> acc, count |-> 0, next |-> i])

\* the decimal digits from position st.next on as a small number, kept from
\* growing past the range of the exponents
RECURSIVE ScanExponent(_, _)
ScanExponent(s, st) ==
  IF st.next > Len(s) \/ DigitValue(Char(s, st.next), 10) < 0 THEN st
  ELSE ScanExponent(s,
                    [value |-> IF st.value > 100000 THEN st.value
                               ELSE 10 * st.value + DigitValue(Char(s, st.next), 10),
                     count |-> st.count + 1,
                     next |-> st.next + 1])

ExponentFrom(s, i) == ScanExponent(s, [value |-> 0, count |-> 0, next |-> i])

\* the double nearest to sg * d * 10^e for a natural number d of n decimal
\* digits
DblOfDecimal(sg, d, n, e) ==
  IF d = << >> THEN DblZero(sg)
  ELSE IF n + e > 310 THEN DblInf(sg)
  ELSE IF n + e < -330 THEN DblZero(sg)
  ELSE DblRatio(sg,
                BigTimesPowerOfFive(d, IF e >= 0 THEN e ELSE 0),
                BigTimesPowerOfFive(<<1>>, IF e >= 0 THEN 0 ELSE -e),
                e)

\* a number of decimal digits that a natural number has, or one more
BigDecimalLen(d) == ((BigBitLen(d) * 78913) \div 262144) + 1

\* the sign a text starts with, and the position behind the sign
SignOf(s) == IF Char(s, 1) = "-" THEN -1 ELSE 1

Unsigned(s) == IF Char(s, 1) \in {"-", "+"} THEN 2 ELSE 1

\* the radix the prefix of a text tells: 0x, 0o and 0b stand before the
\* digits of radix 16, 8 and 2
RadixOf(s) ==
  IF Char(s, 1) # "0" THEN 10
  ELSE IF Char(s, 2) \in {"x", "X"} THEN 16
  ELSE IF Char(s, 2) \in {"o", "O"} THEN 8
  ELSE IF Char(s, 2) \in {"b", "B"} THEN 2
  ELSE 10

\* the exponent part ex behind its sign, which ends the text
ExponentSigned(s, sign, ex) ==
  [ok |-> ex.count > 0 /\ ex.next > Len(s), e |-> sign * ex.value]

\* the exponent part of a decimal literal from position i on: none at the
\* end of the text, or e or E, a sign or none, and digits
ExponentPart(s, i) ==
  IF i > Len(s) THEN [ok |-> TRUE, e |-> 0]
  ELSE IF Char(s, i) \notin {"e", "E"} THEN [ok |-> FALSE, e |-> 0]
  ELSE ExponentSigned(s,
                      IF Char(s, i + 1) = "-" THEN -1 ELSE 1,
                      ExponentFrom(s, IF Char(s, i + 1) \in {"-", "+"}
                                      THEN i + 2 ELSE i + 1))

\* a decimal literal with the digits whole before the point, the digits
\* frac of both sides of it and the exponent part ex: the digits d and the
\* power e of ten they are multiplied with
DecimalParts(whole, frac, ex) ==
  [ok |-> whole.count + frac.count > 0 /\ ex.ok,
   d |-> frac.value,
   e |-> ex.e - frac.count]

DecimalFraction(s, whole, frac) == DecimalParts(whole, frac, ExponentPart(s, frac.next))

\* a literal behind its sign or prefix: the digits of a radix that is not
\* ten end the text, those of radix ten go on with a point and digits
LiteralParts(s, radix, whole) ==
  IF radix # 10
  THEN [ok |-> whole.count > 0 /\ whole.next > Len(s), d |-> whole.value, e |-> 0]
  ELSE DecimalFraction(s, whole,
                       IF Char(s, whole.next) = "."
                       THEN DigitsFrom(s, whole.next + 1, 10, whole.value)
                       ELSE [value |-> whole.value, count |-> 0, next |-> whole.next])

NumberOfParts(sg, parts) ==
  IF ~parts.ok THEN DblNaN
  ELSE DblOfDecimal(sg, parts.d, BigDecimalLen(parts.d), parts.e)

\* the number a trimmed text denotes
StringNumericLiteral(s) ==
  IF s = "" THEN DblZero(1)
  ELSE IF SubSeq(s, Unsigned(s), Len(s)) = "Infinity" THEN DblInf(SignOf(s))
  ELSE NumberOfParts(IF RadixOf(s) = 10 THEN SignOf(s) ELSE 1,
                     LiteralParts(s, RadixOf(s),
                                  DigitsFrom(s,
                                             IF RadixOf(s) = 10 THEN Unsigned(s) ELSE 3,
                                             RadixOf(s), << >>)))

\* Number(s) of a text, as a function of the text
StringToNumberOf == [s \in STRING |-> StringNumericLiteral(TrimEnd(TrimStart(s)))]

StringToNumber(s) == StringToNumberOf[s]
\* m * 2^e * 10^(-p) as a fraction of natural numbers: the numerator and
\* the denominator
ScaledNumerator(m, e, p) ==
  BigShl(BigTimesPowerOfTen(m, IF p < 0 THEN -p ELSE 0), IF e > 0 THEN e ELSE 0)

ScaledDenominator(e, p) ==
  BigShl(BigTimesPowerOfTen(<<1>>, IF p > 0 THEN p ELSE 0), IF e < 0 THEN -e ELSE 0)

\* whether m * 2^e >= 10^j, for a natural number m
GeqPowerOfTen(m, e, j) ==
  BigCmp(ScaledNumerator(m, e, j), ScaledDenominator(e, j)) >= 0

\* floor((b - 1) * log10(2)), or one less
DecimalEstimate(b) == ((b - 1) * 78913) \div 262144

DecimalPointFrom(m, e, est) ==
  est + 1 + Cardinality({j \in (est + 1) .. (est + 2) : GeqPowerOfTen(m, e, j)})

\* the k with 10^(k - 1) <= x < 10^k for a finite x > 0
DecimalPointOf(x) == DecimalPointFrom(x.m, x.e, DecimalEstimate(BigBitLen(x.m) + x.e))

\* a quotient rounded to the nearest whole number, a half to the even one
BigRoundedUp(qr, cmp) == cmp > 0 \/ (cmp = 0 /\ BigBit(qr[1], 0) = 1)

BigRoundedQuotient(qr, den) ==
  BigAdd(qr[1], IF BigRoundedUp(qr, BigCmp(BigShl(qr[2], 1), den)) THEN <<1>> ELSE << >>)

BigNearestQuotient(num, den) == BigRoundedQuotient(BigDivMod(num, den), den)

\* the whole number nearest to m * 2^e / 10^p
DecimalScaled(m, e, p) ==
  BigNearestQuotient(ScaledNumerator(m, e, p), ScaledDenominator(e, p))

\* the n digits nearest to x, with the place k of the point; rounding up
\* to 10^n moves the point
DecimalDigitsTo(q, n, k, power) ==
  IF BigCmp(q, BigMulSmall(power, 10)) >= 0
  THEN [digits |-> power, n |-> n, k |-> k + 1]
  ELSE [digits |-> q, n |-> n, k |-> k]

DecimalDigitsOf(q, n, k) == DecimalDigitsTo(q, n, k, BigTimesPowerOfTen(<<1>>, n - 1))

DecimalDigits(x, n, k) == DecimalDigitsOf(DecimalScaled(x.m, x.e, k - n), n, k)

\* the fewest digits that denote x and no other number, for a finite x > 0
RECURSIVE ShortestFrom(_, _, _)
ShortestChosen(x, k, d) ==
  IF d.n >= 17 \/ DblOfDecimal(1, d.digits, d.n, d.k - d.n) = [x EXCEPT !.sg = 1]
  THEN d
  ELSE ShortestFrom(x, k, d.n + 1)

ShortestFrom(x, k, n) == ShortestChosen(x, k, DecimalDigits(x, n, k))

ShortestDigits(x) == ShortestFrom(x, DecimalPointOf(x), 1)

DecimalCharacters == "0123456789"

\* the n lowest decimal digits of a small number
RECURSIVE SmallToDecimal(_, _)
SmallToDecimal(v, n) ==
  IF n = 0 THEN ""
  ELSE SmallToDecimal(v \div 10, n - 1) \o Char(DecimalCharacters, (v % 10) + 1)

\* the n lowest decimal digits of a natural number, four at a time
RECURSIVE BigToDecimalPadded(_, _)
BigToDecimalSplit(qr, n) ==
  BigToDecimalPadded(qr[1], n - 4)
    \o SmallToDecimal(BigToInt(qr[2]), IF n < 4 THEN n ELSE 4)

BigToDecimalPadded(a, n) ==
  IF n <= 0 THEN ""
  ELSE BigToDecimalSplit(BigDivMod(a, <<10000>>), n)

\* the decimal digits of a natural number
BigToDecimalOf(a, n) ==
  BigToDecimalPadded(a, IF BigCmp(a, BigTimesPowerOfTen(<<1>>, n - 1)) < 0
                        THEN n - 1 ELSE n)

BigToDecimal(a) == IF a = << >> THEN "0" ELSE BigToDecimalOf(a, BigDecimalLen(a))

RECURSIVE Zeros(_)
Zeros(n) == IF n <= 0 THEN "" ELSE "0" \o Zeros(n - 1)

\* the decimal digits of a small natural number
RECURSIVE NaturalToString(_)
NaturalToString(n) ==
  IF n < 10 THEN Char(DecimalCharacters, n + 1)
  ELSE NaturalToString(n \div 10) \o Char(DecimalCharacters, (n % 10) + 1)

IntToString(n) == IF n < 0 THEN "-" \o NaturalToString(-n) ELSE NaturalToString(n)

\* the digits ds, n of them, with the point at place k
DecimalNotation(ds, n, k) ==
  IF k >= n /\ k <= 21 THEN ds \o Zeros(k - n)
  ELSE IF 0 < k /\ k <= 21 THEN SubSeq(ds, 1, k) \o "." \o SubSeq(ds, k + 1, n)
  ELSE IF -6 < k /\ k <= 0 THEN "0." \o Zeros(-k) \o ds
  ELSE (IF n = 1 THEN ds ELSE SubSeq(ds, 1, 1) \o "." \o SubSeq(ds, 2, n))
         \o (IF k - 1 < 0 THEN "e" ELSE "e+") \o IntToString(k - 1)

ShortestNotation(d) == DecimalNotation(BigToDecimalPadded(d.digits, d.n), d.n, d.k)

\* String(x) of a number
NumberToStringOf ==
  [x \in Doubles |->
     IF x.k = "nan" THEN "NaN"
     ELSE IF x.k = "inf" THEN (IF x.sg < 0 THEN "-Infinity" ELSE "Infinity")
     ELSE IF x.m = << >> THEN "0"
     ELSE (IF x.sg < 0 THEN "-" ELSE "") \o ShortestNotation(ShortestDigits(x))]

NumberToString(x) == NumberToStringOf[x]

\* |x| of a finite x rounded to the nearest whole number, a half going up
DblNearestWhole(x) ==
  IF x.m = << >> THEN << >>
  ELSE IF x.e >= 0 THEN BigShl(x.m, x.e)
  ELSE IF -x.e > MantissaBits + 1 THEN << >>
  ELSE BigAdd(BigShr(x.m, -x.e), BigOfInt(BigBit(x.m, -x.e - 1)))

\* x.toFixed(0) of a number
NumberToFixed0(x) ==
  IF x.k # "fin" \/ DblGeq([x EXCEPT !.sg = 1], DblOfDecimal(1, <<1>>, 1, 21))
  THEN NumberToString(x)
  ELSE (IF x.sg < 0 /\ x.m # << >> THEN "-" ELSE "") \o BigToDecimal(DblNearestWhole(x))

\* String(v)
RECURSIVE StringOf(_)
RECURSIVE JoinFrom(_, _)
JoinFrom(items, i) ==
  IF i > Len(items) THEN ""
  ELSE (IF i > 1 THEN "," ELSE "")
         \o (IF items[i].t \in {"undefined", "null"} THEN "" ELSE StringOf(items[i]))
         \o JoinFrom(items, i + 1)

StringOf(v) ==
  CASE v.t = "string" -> v.s
    [] v.t = "undefined" -> "undefined"
    [] v.t = "null" -> "null"
    [] v.t = "boolean" -> IF v.b THEN "true" ELSE "false"
    [] v.t = "number" -> NumberToString(v)
    [] v.t = "array" -> JoinFrom(v.items, 1)
    [] v.t = "object" -> "[object Object]"
    [] v.t = "function" -> "function " \o v.s \o "() { [native code] }"

\* the value in place of which an array is converted to a number: its text
\* is that of its only element, the empty text when it has no element or
\* the element is undefined or null, and a text with commas, which denotes
\* no number, when it has several; the text of a number denotes that number
\* without the sign of zero, the text of a boolean, an object or a function
\* denotes no number
RECURSIVE Unwrapped(_)
Unwrapped(v) ==
  IF v.t # "array" THEN v
  ELSE IF Len(v.items) = 0 THEN JsString("")
  ELSE IF Len(v.items) > 1 THEN DblNaN
  ELSE IF v.items[1].t \in {"undefined", "null"} THEN JsString("")
  ELSE IF v.items[1].t \in {"boolean", "object", "function"} THEN DblNaN
  ELSE IF v.items[1].t = "number" /\ DblIsZero(v.items[1]) THEN DblZero(1)
  ELSE Unwrapped(v.items[1])

\* Number(v) of a value that is not an array
PrimitiveToNumber(v) ==
  CASE v.t = "number" -> v
    [] v.t = "undefined" -> DblNaN
    [] v.t = "null" -> DblZero(1)
    [] v.t = "boolean" -> IF v.b THEN DblOfInt(1) ELSE DblZero(1)
    [] v.t = "string" -> StringToNumber(v.s)
    [] v.t = "object" -> DblNaN
    [] v.t = "function" -> DblNaN

\* Number(v)
ToNumber(v) == PrimitiveToNumber(Unwrapped(v))

\* the numbers several operands convert to
ToNumbersOf(values) == [i \in 1 .. Len(values) |-> ToNumber(values[i])] \o << >>

ToNumbers(v, w) == ToNumbersOf(<<v, w>>)

\* typeof v
TypeOf(v) == IF v.t \in {"null", "array"} THEN "object" ELSE v.t

\* !v
Falsy(v) ==
  \/ v.t \in {"undefined", "null"}
  \/ v.t = "boolean" /\ ~v.b
  \/ v.t = "string" /\ v.s = ""
  \/ v.t = "number" /\ (v.k = "nan" \/ DblIsZero(v))

\* v || w
JsOr(v, w) == IF Falsy(v) THEN w ELSE v

\* v === w for values that are not both objects
StrictEquals(v, w) ==
  /\ v.t = w.t
  /\ v.t \notin {"object", "array", "function"}
  /\ IF v.t = "number" THEN DblEq(v, w) ELSE v = w

\* v.name of a value that is not undefined or null; only objects have the
\* properties the program reads
Property(v, name) ==
  IF v.t = "object" /\ name \in DOMAIN v.fields THEN v.fields[name] ELSE JsUndefined

\* v?.name
OptionalProperty(v, name) ==
  IF v.t \in {"undefined", "null"} THEN JsUndefined ELSE Property(v, name)

\* a parameter or destructured property with a default value
DefaultTo(v, d) == IF v.t = "undefined" THEN d ELSE v

\* v - w
Difference(n) == DblSub(n[1], n[2])

JsSub(v, w) == Difference(ToNumbers(v, w))

\* v + w: texts are joined, anything else is added as numbers
Sum(n) == DblAdd(n[1], n[2])

Joined(texts) == JsString(texts[1] \o texts[2])

JsAdd(v, w) ==
  IF v.t \in {"string", "array", "object", "function"}
     \/ w.t \in {"string", "array", "object", "function"}
  THEN Joined([i \in 1 .. 2 |-> StringOf(IF i = 1 THEN v ELSE w)])
  ELSE Sum(ToNumbers(v, w))

\* v.toFixed(0): only numbers have the method
HasToFixed(v) == v.t = "number"

\* v === undefined || v === null || v === ''
Missing(v) ==
  \/ v.t \in {"undefined", "null"}
  \/ v.t = "string" /\ v.s = ""

\* what reading a property of undefined or null, or calling a method a
\* value does not have, throws
Thrown(msg) == [ok |-> FALSE, error |-> msg]

CannotRead(v, name) ==
  Thrown("Cannot read properties of " \o v.t \o " (reading '" \o name \o "')")

NotAFunction(name) == Thrown(name \o " is not a function")

\* v.toLocaleString(...) exists on every value but undefined and null
Nullish(v) == v.t \in {"undefined", "null"}

\* ------------------------------------------------------------------------
\* Rate table (config/taxRates.js)
\* ------------------------------------------------------------------------

CORPORATE_TAX_RATE == JsFraction(22, 100)

ZoneIds == {"1", "1a", "2", "3", "4", "4a", "5"}

\* the rates of the zones in thousandths: 0.141, 0.141, 0.106, 0.064, 0.054,
\* 0.079 and 0.0
EmployerRateThousandths(z) ==
  CASE z = "1"  -> 141
    [] z = "1a" -> 141
    [] z = "2"  -> 106
    [] z = "3"  -> 64
    [] z = "4"  -> 54
    [] z = "4a" -> 79
    [] z = "5"  -> 0

EMPLOYER_SOCIAL_SECURITY_RATES ==
  [z \in ZoneIds |-> JsFraction(EmployerRateThousandths(z), 1000)]

\* the members every object inherits
ObjectPrototypeNames ==
  {"constructor", "hasOwnProperty", "isPrototypeOf", "propertyIsEnumerable",
   "toLocaleString", "toString", "valueOf", "__defineGetter__",
   "__defineSetter__", "__lookupGetter__", "__lookupSetter__", "__proto__"}

Inherited(key) ==
  IF key = "__proto__" THEN JsObject([x \in {} |-> JsUndefined])
  ELSE IF key = "constructor" THEN JsFunction("Object")
  ELSE JsFunction(key)

\* EMPLOYER_SOCIAL_SECURITY_RATES[zone]: the key is the text of the zone
RateIn(rates, key) ==
  IF key \in DOMAIN rates THEN rates[key]
  ELSE IF key \in ObjectPrototypeNames THEN Inherited(key)
  ELSE JsUndefined

RateOfKey(key) == RateIn(EMPLOYER_SOCIAL_SECURITY_RATES, key)

RateOfZone(zone) == RateOfKey(StringOf(zone))

PERSONAL_TAX_RATE == JsFraction(22, 100)

\* the thresholds of the five brackets and their rates in thousandths:
\* 0.017, 0.04, 0.137, 0.167 and 0.176
BracketThresholds == <<217400, 306050, 697150, 942400, 1410750>>

BracketRateThousandths == <<17, 40, 137, 167, 176>>

BRACKET_TAX_2025 ==
  [i \in 1 .. 5 |->
     [threshold |-> JsNumber(BracketThresholds[i]),
      rate |-> JsFraction(BracketRateThousandths[i], 1000)]] \o << >>

SOCIAL_SECURITY_RATES == [salary |-> JsFraction(78, 1000)]

SOCIAL_SECURITY_THRESHOLD == JsNumber(69650)

DIVIDEND_GROSS_UP_FACTOR == JsFraction(172, 100)

EFFECTIVE_DIVIDEND_TAX_RATE == DblMul(PERSONAL_TAX_RATE, DIVIDEND_GROSS_UP_FACTOR)

SKJERMING_RATE_2025 == JsFraction(5, 100)

MINSTEFRADRAG ==
  [rate |-> JsFraction(46, 100), minimum |-> JsNumber(4000), maximum |-> JsNumber(114950)]

PERSONFRADRAG == JsNumber(73150)

OTP_MIN_RATE == JsFraction(2, 100)

OTP_MAX_RATE == JsFraction(7, 100)
\* ------------------------------------------------------------------------
\* Salary calculations (calculations/salaryCalculations.js)
\*
\* The texts the calculators compose for display (calculationSteps,
\* descriptions, the console) are left out of the results; the failures of
\* composing them are not.  An argument that takes part in arithmetic only
\* is converted to its number once, where the code converts it in every
\* operation; the results hold the argument itself wherever the code stores
\* it.
\* ------------------------------------------------------------------------

\* what the template literal of the error message throws for a zone
InvalidZone(zoneText) ==
  Thrown("Invalid employer zone: " \o zoneText
           \o ". Cannot calculate without valid zone.")

\* a largest gross salary that is the whole available amount in every zone
calculateMaxGrossSalary_ZoneBlind(availableAmount, zone, includePension, pensionRate) ==
  IF RateOfZone(zone).t = "undefined" THEN InvalidZone(StringOf(zone))
  ELSE [ok |-> TRUE,
        grossSalary |-> MathRound(ToNumber(availableAmount)),
        employerAGA |-> JsNumber(0),
        pensionContribution |-> JsNumber(0),
        pensionAGA |-> JsNumber(0),
        totalEmployerCost |-> MathRound(ToNumber(availableAmount))]

\* the returned object of calculateMaxGrossSalary
MaxGrossSalaryCosts(grossSalary, employerAGA, pensionContribution, pensionAGA) ==
  [ok |-> TRUE,
   grossSalary |-> MathRound(grossSalary),
   employerAGA |-> MathRound(employerAGA),
   pensionContribution |-> MathRound(pensionContribution),
   pensionAGA |-> MathRound(pensionAGA),
   totalEmployerCost |->
     MathRound(DblAdd(DblAdd(DblAdd(grossSalary, employerAGA), pensionContribution),
                      pensionAGA))]

\* pensionAGA = pensionContribution * agaRate
MaxGrossSalaryPension(agaRate, grossSalary, pensionContribution) ==
  MaxGrossSalaryCosts(grossSalary, DblMul(grossSalary, agaRate),
                      pensionContribution, DblMul(pensionContribution, agaRate))

\* pensionContribution = includePension ? grossSalary * pensionRate : 0
MaxGrossSalaryGross(agaRate, included, pensionRate, grossSalary) ==
  MaxGrossSalaryPension(agaRate, grossSalary,
                        IF included THEN DblMul(grossSalary, pensionRate)
                        ELSE JsNumber(0))

\* a gross salary that is the whole available amount, with the costs on top
MaxGrossSalaryFactor_Undivided(availableAmount, agaRate, included, pensionRate, totalCostFactor) ==
  MaxGrossSalaryGross(agaRate, included, pensionRate, availableAmount)

\* grossSalary = availableAmount / totalCostFactor
MaxGrossSalaryFactor(availableAmount, agaRate, included, pensionRate, totalCostFactor) ==
  MaxGrossSalaryGross(agaRate, included, pensionRate,
                      DblDiv(availableAmount, totalCostFactor))

\* totalCostFactor = 1 + agaRate + pensionFactor * (1 + agaRate)
MaxGrossSalaryRated(availableAmount, agaRate, included, pensionRate, onePlusRate) ==
  MaxGrossSalaryFactor(availableAmount, agaRate, included, pensionRate,
                       DblAdd(onePlusRate,
                              DblMul(IF included THEN pensionRate ELSE JsNumber(0),
                                     onePlusRate)))

\* the arithmetic of calculateMaxGrossSalary; n holds the numbers
\* availableAmount and pensionRate convert to
MaxGrossSalaryNumbers(agaRate, included, n) ==
  MaxGrossSalaryRated(n[1], agaRate, included, n[2], DblAdd(JsNumber(1), agaRate))

\* an agaRate that is not a number makes totalCostFactor a text, which has
\* no toFixed
MaxGrossSalaryOf(availableAmount, zoneText, includePension, pensionRate, agaRate) ==
  IF agaRate.t = "undefined" THEN InvalidZone(zoneText)
  ELSE IF agaRate.t # "number" THEN NotAFunction("totalCostFactor.toFixed")
  ELSE IF Nullish(availableAmount) THEN CannotRead(availableAmount, "toLocaleString")
  ELSE MaxGrossSalaryNumbers(agaRate, ~Falsy(includePension),
                             ToNumbers(availableAmount, pensionRate))

MaxGrossSalaryKeyed(availableAmount, zoneText, includePension, pensionRate) ==
  MaxGrossSalaryOf(availableAmount, zoneText, includePension, pensionRate,
                   RateOfKey(zoneText))

\* calculateMaxGrossSalary(availableAmount, zone, includePension = false,
\*                         pensionRate = OTP_MIN_RATE)
calculateMaxGrossSalary(availableAmount, zone, includePension, pensionRate) ==
  MaxGrossSalaryKeyed(availableAmount, StringOf(zone),
                      DefaultTo(includePension, JsBoolean(FALSE)),
                      DefaultTo(pensionRate, OTP_MIN_RATE))

\* the whole salary taken as the slice of every bracket it reaches
TaxableInBracket_WholeIncome(grossSalary, brackets, i) == grossSalary

\* the threshold of the bracket after bracket i, Infinity after the last
NextThreshold(brackets, i) ==
  IF i < Len(brackets) THEN brackets[i + 1].threshold ELSE Infinity

\* a slice of bracket i that is measured from 0 and not from the bracket's
\* threshold
TaxableInBracket_FromZero(grossSalary, brackets, i) ==
  MathMin(grossSalary, NextThreshold(brackets, i))

\* the slice of grossSalary taxed in bracket i:
\* Math.min(grossSalary, nextThreshold) - bracket.threshold
TaxableInBracket(grossSalary, brackets, i) ==
  DblSub(MathMin(grossSalary, NextThreshold(brackets, i)), brackets[i].threshold)

BracketEntry(bracket, i, taxableInBracket, taxInBracket) ==
  [step |-> JsNumber(i),
   threshold |-> bracket.threshold,
   rate |-> bracket.rate,
   taxableAmount |-> MathRound(taxableInBracket),
   tax |-> MathRound(taxInBracket)]

BracketAdded(st, bracket, i, taxableInBracket, taxInBracket) ==
  [totalBracketTax |-> DblAdd(st.totalBracketTax, taxInBracket),
   breakdown |->
     Append(st.breakdown, BracketEntry(bracket, i, taxableInBracket, taxInBracket))]

\* taxInBracket = taxableInBracket * bracket.rate
BracketStep(st, bracket, i, taxableInBracket) ==
  BracketAdded(st, bracket, i, taxableInBracket,
               DblMul(taxableInBracket, bracket.rate))

\* the loop over the brackets from bracket i on; st holds totalBracketTax
\* and breakdown, grossSalary is the number the argument converts to
RECURSIVE BracketLoop(_, _, _, _)
BracketLoop(st, grossSalary, brackets, i) ==
  IF i > Len(brackets) THEN st
  ELSE BracketLoop(IF DblGreater(grossSalary, brackets[i].threshold)
                   THEN BracketStep(st, brackets[i], i,
                                    TaxableInBracket(grossSalary, brackets, i))
                   ELSE st,
                   grossSalary, brackets, i + 1)

BracketTaxResult(st) ==
  [ok |-> TRUE,
   totalBracketTax |-> MathRound(st.totalBracketTax),
   breakdown |-> st.breakdown]

calculateBracketTax(grossSalary) ==
  BracketTaxResult(BracketLoop([totalBracketTax |-> JsNumber(0), breakdown |-> << >>],
                               ToNumber(grossSalary), BRACKET_TAX_2025, 1))

\* the contribution on the number the gross salary converts to
SocialSecurityContributionOf(grossSalary, amount, rate, threshold) ==
  IF DblLeq(amount, threshold)
  THEN [ok |-> TRUE,
        contribution |-> JsNumber(0),
        rate |-> rate,
        taxableBase |-> JsNumber(0)]
  ELSE [ok |-> TRUE,
        contribution |-> MathRound(DblMul(amount, rate)),
        rate |-> rate,
        taxableBase |-> grossSalary]

calculateSocialSecurityContribution(grossSalary) ==
  IF Nullish(grossSalary) THEN CannotRead(grossSalary, "toLocaleString")
  ELSE SocialSecurityContributionOf(grossSalary, ToNumber(grossSalary),
                                    SOCIAL_SECURITY_RATES.salary,
                                    SOCIAL_SECURITY_THRESHOLD)

\* a minimum deduction without its maximum
MinstefradragAmount_NoMaximum(grossSalary, limits) ==
  MathMin(MathMax(DblMul(grossSalary, limits.rate), limits.minimum), grossSalary)

\* min(min(max(grossSalary * rate, minimum), maximum), grossSalary), unrounded
MinstefradragAmount(grossSalary, limits) ==
  MathMin(MathMin(MathMax(DblMul(grossSalary, limits.rate), limits.minimum),
                  limits.maximum),
          grossSalary)

\* const { rate, minimum, maximum } = MINSTEFRADRAG
MinstefradragOf(grossSalary, limits) ==
  [ok |-> TRUE,
   minstefradrag |-> MathRound(MinstefradragAmount(grossSalary, limits)),
   rate |-> limits.rate,
   minimum |-> limits.minimum,
   maximum |-> limits.maximum]

calculateMinstefradrag(grossSalary) ==
  IF Nullish(grossSalary) THEN CannotRead(grossSalary, "toLocaleString")
  ELSE MinstefradragOf(ToNumber(grossSalary), MINSTEFRADRAG)

IncomeTaxOf(minstefradrag, taxableIncome, rate, personfradrag) ==
  [ok |-> TRUE,
   incomeTax |-> MathRound(DblMul(taxableIncome, rate)),
   taxableIncome |-> MathRound(taxableIncome),
   minstefradrag |-> minstefradrag,
   personfradrag |-> personfradrag,
   rate |-> rate]

\* an income tax on a taxable income that is not kept from falling below 0
IncomeTaxDeducted_Unclamped(grossSalary, minstefradrag, personfradrag) ==
  IncomeTaxOf(minstefradrag,
              DblSub(DblSub(grossSalary, minstefradrag), personfradrag),
              PERSONAL_TAX_RATE, personfradrag)

\* an income tax that deducts the personal allowance only
IncomeTaxDeducted_NoMinstefradrag(grossSalary, minstefradrag, personfradrag) ==
  IncomeTaxOf(minstefradrag,
              MathMax(JsNumber(0), DblSub(grossSalary, personfradrag)),
              PERSONAL_TAX_RATE, personfradrag)

\* taxableIncome = Math.max(0, grossSalary - minstefradrag - PERSONFRADRAG)
IncomeTaxDeducted(grossSalary, minstefradrag, personfradrag) ==
  IncomeTaxOf(minstefradrag,
              MathMax(JsNumber(0),
                      DblSub(DblSub(grossSalary, minstefradrag), personfradrag)),
              PERSONAL_TAX_RATE, personfradrag)

IncomeTaxAfter(grossSalary, minstefradragResult) ==
  IF ~minstefradragResult.ok THEN minstefradragResult
  ELSE IncomeTaxDeducted(ToNumber(grossSalary), minstefradragResult.minstefradrag,
                         PERSONFRADRAG)

calculateIncomeTax(grossSalary) ==
  IncomeTaxAfter(grossSalary, calculateMinstefradrag(grossSalary))

\* what const { name = ..., ... } = options throws when options is null:
\* every property has a default value, and reading the first one fails
CannotDestructure(name) ==
  Thrown("Cannot read properties of null (reading '" \o name \o "')")

\* the returned object of calculateSalaryScenario
SalaryScenarioResult(input, profit, retainedEarnings, retainedAfterTax, availableForExtraction, corporateTax, grossSalary, employerAGA, pensionContribution, totalEmployerCost, trygdeavgift, trinnskatt, inntektsskatt, totalPersonalTax, totalTax, netSalary, effectiveTaxRate, effectivePersonalTaxRate) ==
  [ok |-> TRUE,
   scenarioType |-> "salary",
   scenarioName |-> "100% Lønn",
   input |-> input,
   company |->
     [profit |-> profit,
      retainedEarnings |-> retainedEarnings,
      retainedAfterTax |-> retainedAfterTax,
      availableForExtraction |-> availableForExtraction,
      grossSalaryPaid |-> grossSalary,
      employerAGA |-> employerAGA,
      pensionContribution |-> pensionContribution,
      totalEmployerCost |-> totalEmployerCost,
      corporateTaxOnRetained |-> corporateTax],
   personal |->
     [grossSalary |-> grossSalary,
      trygdeavgift |-> trygdeavgift,
      trinnskatt |-> trinnskatt,
      inntektsskatt |-> inntektsskatt,
      totalPersonalTax |-> totalPersonalTax,
      netSalary |-> netSalary,
      pensionAccrued |-> pensionContribution],
   taxSummary |->
     [employerAGA |-> employerAGA,
      corporateTax |-> corporateTax,
      personalTax |-> totalPersonalTax,
      totalTax |-> totalTax,
      effectiveTaxRate |-> effectiveTaxRate,
      effectivePersonalTaxRate |-> effectivePersonalTaxRate],
   results |->
     [netPrivatePayout |-> netSalary,
      totalTaxPaid |-> totalTax,
      effectiveTaxRate |-> effectiveTaxRate,
      retainedInCompany |-> retainedAfterTax]]

\* the rounded amounts of the returned object, the net salary and the two
\* effective rates; profitNumber is the number the profit converts to
SalaryScenarioTotals(input, profit, profitNumber, retainedAmount, availableForExtraction, corporateTaxOnRetained, grossSalary, employerAGA, pensionContribution, trygdeavgift, trinnskatt, inntektsskatt, totalPersonalTax, totalTax) ==
  SalaryScenarioResult(input, profit,
                       MathRound(retainedAmount),
                       MathRound(DblSub(retainedAmount, corporateTaxOnRetained)),
                       MathRound(availableForExtraction),
                       MathRound(corporateTaxOnRetained),
                       grossSalary, employerAGA,
                       MathRound(pensionContribution),
                       MathRound(DblAdd(DblAdd(grossSalary, employerAGA),
                                        pensionContribution)),
                       trygdeavgift, trinnskatt, inntektsskatt,
                       totalPersonalTax,
                       MathRound(totalTax),
                       DblSub(grossSalary, totalPersonalTax),
                       IF DblGreater(profitNumber, JsNumber(0))
                       THEN DblDiv(totalTax, profitNumber) ELSE JsNumber(0),
                       IF DblGreater(grossSalary, JsNumber(0))
                       THEN DblDiv(totalPersonalTax, grossSalary) ELSE JsNumber(0))

\* totalTax = employerAGA + totalPersonalTax + corporateTaxOnRetained
SalaryScenarioSummed(input, profit, profitNumber, retainedAmount, availableForExtraction, corporateTaxOnRetained, grossSalary, employerAGA, pensionContribution, trygdeavgift, trinnskatt, inntektsskatt, totalPersonalTax) ==
  SalaryScenarioTotals(input, profit, profitNumber, retainedAmount,
                       availableForExtraction, corporateTaxOnRetained,
                       grossSalary, employerAGA, pensionContribution,
                       trygdeavgift, trinnskatt, inntektsskatt, totalPersonalTax,
                       DblAdd(DblAdd(employerAGA, totalPersonalTax),
                              corporateTaxOnRetained))

\* corporateTaxOnRetained = retainedAmount * CORPORATE_TAX_RATE and
\* totalPersonalTax = trygdeavgift + trinnskatt + inntektsskatt
SalaryScenarioTaxed(input, profit, profitNumber, retainedAmount, availableForExtraction, salaryCalc, trygdeavgift, trinnskatt, inntektsskatt) ==
  SalaryScenarioSummed(input, profit, profitNumber, retainedAmount,
                       availableForExtraction,
                       DblMul(retainedAmount, CORPORATE_TAX_RATE),
                       salaryCalc.grossSalary, salaryCalc.employerAGA,
                       salaryCalc.pensionContribution,
                       trygdeavgift, trinnskatt, inntektsskatt,
                       DblAdd(DblAdd(trygdeavgift, trinnskatt), inntektsskatt))

\* the taxes on the gross salary calculateMaxGrossSalary returned
SalaryScenarioPaid(input, profit, profitNumber, retainedAmount, availableForExtraction, salaryCalc) ==
  IF ~salaryCalc.ok THEN salaryCalc
  ELSE SalaryScenarioTaxed(input, profit, profitNumber, retainedAmount,
                           availableForExtraction, salaryCalc,
                           calculateSocialSecurityContribution(salaryCalc.grossSalary).contribution,
                           calculateBracketTax(salaryCalc.grossSalary).totalBracketTax,
                           calculateIncomeTax(salaryCalc.grossSalary).incomeTax)

\* a share left for extraction that is the whole profit, whatever is
\* retained
AvailableForExtraction_Whole(profit, retainedAmount) == profit

\* availableForExtraction = profit - retainedAmount
AvailableForExtraction(profit, retainedAmount) == DblSub(profit, retainedAmount)

SalaryScenarioAvailable(input, profit, profitNumber, retainedAmount, availableForExtraction) ==
  IF Nullish(profit) THEN CannotRead(profit, "toLocaleString")
  ELSE SalaryScenarioPaid(input, profit, profitNumber, retainedAmount,
                          availableForExtraction,
                          calculateMaxGrossSalary(availableForExtraction, input.zone,
                                                  input.includePension,
                                                  input.pensionRate))

SalaryScenarioRetained(input, profit, profitNumber, retainedAmount) ==
  SalaryScenarioAvailable(input, profit, profitNumber, retainedAmount,
                          AvailableForExtraction(profitNumber, retainedAmount))

\* retainedAmount = profit * retentionPercentage; n holds the numbers profit
\* and retentionPercentage convert to
SalaryScenarioNumbers(input, n) ==
  SalaryScenarioRetained(input, input.profit, n[1], DblMul(n[1], n[2]))

\* the input object of the result: the arguments as they were given, the
\* options with their defaults
SalaryScenarioWith(input) ==
  SalaryScenarioNumbers(input, ToNumbers(input.profit, input.retentionPercentage))

\* calculateSalaryScenario(profit, zone, options = {}) with the options
\* {includePension = false, pensionRate = OTP_MIN_RATE, retentionPercentage = 0}
SalaryScenarioDestructured(profit, zone, options) ==
  IF options.t = "null" THEN CannotDestructure("includePension")
  ELSE SalaryScenarioWith(
         [profit |-> profit,
          zone |-> zone,
          includePension |-> DefaultTo(Property(options, "includePension"),
                                       JsBoolean(FALSE)),
          pensionRate |-> DefaultTo(Property(options, "pensionRate"), OTP_MIN_RATE),
          retentionPercentage |-> DefaultTo(Property(options, "retentionPercentage"),
                                            JsNumber(0))])

calculateSalaryScenario(profit, zone, options) ==
  SalaryScenarioDestructured(profit, zone, DefaultTo(options, EmptyObject))

\* ------------------------------------------------------------------------
\* Dividend calculations (calculations/dividendCalculations.js)
\* ------------------------------------------------------------------------

CorporateTaxReturned(profit, corporateTax, profitAfterTax) ==
  [ok |-> TRUE,
   profit |-> profit,
   corporateTax |-> MathRound(corporateTax),
   profitAfterTax |-> MathRound(profitAfterTax),
   rate |-> CORPORATE_TAX_RATE]

\* profitAfterTax = profit - corporateTax
CorporateTaxTaxed(profit, amount, corporateTax) ==
  CorporateTaxReturned(profit, corporateTax, DblSub(amount, corporateTax))

\* corporateTax = profit * CORPORATE_TAX_RATE
CorporateTaxOf(profit, amount, rate) ==
  CorporateTaxTaxed(profit, amount, DblMul(amount, rate))

calculateCorporateTax(profit) ==
  IF Nullish(profit) THEN CannotRead(profit, "toLocaleString")
  ELSE CorporateTaxOf(profit, ToNumber(profit), CORPORATE_TAX_RATE)

\* a shielding deduction that is never granted
calculateSkjermingsfradrag_None(costBasis, skjermingRate) ==
  [ok |-> TRUE,
   costBasis |-> JsNumber(0),
   skjermingRate |-> DefaultTo(skjermingRate, SKJERMING_RATE_2025),
   skjermingsfradrag |-> JsNumber(0)]

\* n holds the numbers costBasis and skjermingRate convert to
SkjermingsfradragOf(costBasis, rate, n) ==
  IF Falsy(costBasis) \/ DblLeq(n[1], JsNumber(0))
  THEN [ok |-> TRUE,
        costBasis |-> JsNumber(0),
        skjermingRate |-> rate,
        skjermingsfradrag |-> JsNumber(0)]
  ELSE [ok |-> TRUE,
        costBasis |-> costBasis,
        skjermingRate |-> rate,
        skjermingsfradrag |-> MathRound(DblMul(n[1], n[2]))]

SkjermingsfradragRated(costBasis, rate) ==
  SkjermingsfradragOf(costBasis, rate, ToNumbers(costBasis, rate))

\* calculateSkjermingsfradrag(costBasis, skjermingRate = SKJERMING_RATE_2025)
calculateSkjermingsfradrag(costBasis, skjermingRate) ==
  SkjermingsfradragRated(costBasis, DefaultTo(skjermingRate, SKJERMING_RATE_2025))

DividendTaxReturned(dividendAmount, skjermingsfradrag, amount, taxableDividend, grossedUpDividend, personalTaxRate, dividendTax) ==
  [ok |-> TRUE,
   dividendAmount |-> dividendAmount,
   skjermingsfradrag |-> skjermingsfradrag,
   taxableDividend |-> MathRound(taxableDividend),
   grossUpFactor |-> DIVIDEND_GROSS_UP_FACTOR,
   grossedUpDividend |-> MathRound(grossedUpDividend),
   personalTaxRate |-> personalTaxRate,
   dividendTax |-> MathRound(dividendTax),
   netDividend |-> MathRound(DblSub(amount, dividendTax)),
   effectiveRate |->
     IF DblGreater(amount, JsNumber(0)) THEN DblDiv(dividendTax, amount)
     ELSE JsNumber(0),
   theoreticalMaxRate |-> EFFECTIVE_DIVIDEND_TAX_RATE]

\* dividendTax = grossedUpDividend * PERSONAL_TAX_RATE
DividendTaxGrossedUp(dividendAmount, skjermingsfradrag, amount, taxableDividend, grossedUpDividend, personalTaxRate) ==
  DividendTaxReturned(dividendAmount, skjermingsfradrag, amount, taxableDividend, grossedUpDividend,
           personalTaxRate, DblMul(grossedUpDividend, personalTaxRate))

\* grossedUpDividend = taxableDividend * DIVIDEND_GROSS_UP_FACTOR
DividendTaxTaxable(dividendAmount, skjermingsfradrag, amount, taxableDividend) ==
  DividendTaxGrossedUp(dividendAmount, skjermingsfradrag, amount, taxableDividend,
            DblMul(taxableDividend, DIVIDEND_GROSS_UP_FACTOR),
            PERSONAL_TAX_RATE)

\* taxableDividend = Math.max(0, dividendAmount - skjermingsfradrag);
\* n holds the numbers the two arguments convert to
DividendTaxOf(dividendAmount, skjermingsfradrag, n) ==
  DividendTaxTaxable(dividendAmount, skjermingsfradrag, n[1],
          MathMax(JsNumber(0), DblSub(n[1], n[2])))

DividendTaxShielded(dividendAmount, skjermingsfradrag) ==
  IF Nullish(dividendAmount) THEN CannotRead(dividendAmount, "toLocaleString")
  ELSE IF Nullish(skjermingsfradrag)
  THEN CannotRead(skjermingsfradrag, "toLocaleString")
  ELSE DividendTaxOf(dividendAmount, skjermingsfradrag, ToNumbers(dividendAmount, skjermingsfradrag))

\* calculateDividendTax(dividendAmount, skjermingsfradrag = 0)
calculateDividendTax(dividendAmount, skjermingsfradragGiven) ==
  DividendTaxShielded(dividendAmount, DefaultTo(skjermingsfradragGiven, JsNumber(0)))

CombinedDividendTaxReturned(profit, skjermingsfradrag, corporateTaxResult, dividendTaxResult, totalTax, amount) ==
  [ok |-> TRUE,
   profit |-> profit,
   corporateTax |-> corporateTaxResult.corporateTax,
   profitAfterCorporateTax |-> corporateTaxResult.profitAfterTax,
   dividendDistributed |-> corporateTaxResult.profitAfterTax,
   skjermingsfradrag |-> skjermingsfradrag,
   dividendTax |-> dividendTaxResult.dividendTax,
   totalTax |-> MathRound(totalTax),
   netPrivatePayout |-> MathRound(dividendTaxResult.netDividend),
   combinedEffectiveRate |->
     IF DblGreater(amount, JsNumber(0)) THEN DblDiv(totalTax, amount)
     ELSE JsNumber(0),
   corporateTaxResult |-> corporateTaxResult,
   dividendTaxResult |-> dividendTaxResult]

\* totalTax = corporateTaxResult.corporateTax + dividendTaxResult.dividendTax
CombinedDividendTaxTaxed(profit, skjermingsfradrag, corporateTaxResult, dividendTaxResult) ==
  IF ~dividendTaxResult.ok THEN dividendTaxResult
  ELSE CombinedDividendTaxReturned(profit, skjermingsfradrag, corporateTaxResult, dividendTaxResult,
                DblAdd(corporateTaxResult.corporateTax,
                       dividendTaxResult.dividendTax),
                ToNumber(profit))

CombinedDividendTaxCompany(profit, skjermingsfradrag, corporateTaxResult) ==
  IF ~corporateTaxResult.ok THEN corporateTaxResult
  ELSE CombinedDividendTaxTaxed(profit, skjermingsfradrag, corporateTaxResult,
             calculateDividendTax(corporateTaxResult.profitAfterTax,
                                  skjermingsfradrag))

\* calculateCombinedDividendTax(profit, skjermingsfradrag = 0)
calculateCombinedDividendTax(profit, skjermingsfradragGiven) ==
  CombinedDividendTaxCompany(profit, DefaultTo(skjermingsfradragGiven, JsNumber(0)),
          calculateCorporateTax(profit))

\* a dividend scenario that distributes the whole profit, whatever is retained
RetainedBeforeTax_Ignored(profit, retentionPercentage) == JsNumber(0)

\* retainedBeforeTax = profit * retentionPercentage
RetainedBeforeTax(profit, retentionPercentage) == DblMul(profit, retentionPercentage)

\* a shielding deduction applied in full, whatever dividend there is
AppliedSkjermingsfradrag_Uncapped(skjermingsfradrag, dividendAvailable) ==
  skjermingsfradrag

\* Math.min(skjermingResult.skjermingsfradrag, dividendAvailable)
AppliedSkjermingsfradrag(skjermingsfradrag, dividendAvailable) ==
  MathMin(skjermingsfradrag, dividendAvailable)

\* the returned object
DividendScenarioReturned(profit, input, corporateTax, profitAfterTax, retainedBeforeTax, retainedAfterTax, dividendDistributed, skjermingsfradrag, dividendTaxResult, dividendTax, netDividend, totalTax, effectiveTaxRate) ==
  [ok |-> TRUE,
   scenarioType |-> "dividend",
   scenarioName |-> "100% Utbytte",
   input |-> input,
   company |->
     [profit |-> profit,
      corporateTax |-> corporateTax,
      profitAfterTax |-> profitAfterTax,
      retainedBeforeTax |-> retainedBeforeTax,
      retainedAfterTax |-> retainedAfterTax,
      dividendDistributed |-> dividendDistributed],
   personal |->
     [dividendReceived |-> dividendDistributed,
      skjermingsfradrag |-> skjermingsfradrag,
      taxableDividend |-> dividendTaxResult.taxableDividend,
      dividendTax |-> dividendTax,
      netDividend |-> netDividend],
   taxSummary |->
     [corporateTax |-> corporateTax,
      dividendTax |-> dividendTax,
      totalTax |-> totalTax,
      effectiveTaxRate |-> effectiveTaxRate,
      effectiveDividendTaxRate |-> dividendTaxResult.effectiveRate],
   results |->
     [netPrivatePayout |-> netDividend,
      totalTaxPaid |-> totalTax,
      effectiveTaxRate |-> effectiveTaxRate,
      retainedInCompany |-> retainedAfterTax]]

\* the rounded amounts of the returned object and the effective rate
DividendScenarioTotalled(profit, input, amount, retainedBeforeTax, retainedAfterTax, dividendAvailable, skjermingsfradrag, totalCorporateTax, dividendTaxResult, totalTax) ==
  DividendScenarioReturned(profit, input,
           MathRound(totalCorporateTax),
           MathRound(DblSub(amount, totalCorporateTax)),
           MathRound(retainedBeforeTax),
           MathRound(retainedAfterTax),
           MathRound(dividendAvailable),
           MathRound(skjermingsfradrag),
           dividendTaxResult,
           MathRound(dividendTaxResult.dividendTax),
           MathRound(dividendTaxResult.netDividend),
           MathRound(totalTax),
           IF DblGreater(amount, JsNumber(0)) THEN DblDiv(totalTax, amount)
           ELSE JsNumber(0))

\* totalTax = totalCorporateTax + dividendTaxResult.dividendTax
DividendScenarioTaxed(profit, input, amount, retainedBeforeTax, retainedAfterTax, dividendAvailable, skjermingsfradrag, totalCorporateTax, dividendTaxResult) ==
  DividendScenarioTotalled(profit, input, amount, retainedBeforeTax, retainedAfterTax,
           dividendAvailable, skjermingsfradrag, totalCorporateTax,
           dividendTaxResult,
           DblAdd(totalCorporateTax, dividendTaxResult.dividendTax))

DividendScenarioShielded(profit, input, amount, retainedBeforeTax, retainedAfterTax, dividendAvailable, skjermingsfradrag, totalCorporateTax) ==
  DividendScenarioTaxed(profit, input, amount, retainedBeforeTax, retainedAfterTax,
        dividendAvailable, skjermingsfradrag, totalCorporateTax,
        calculateDividendTax(dividendAvailable, skjermingsfradrag))

\* skjermingsfradrag = Math.min(skjermingResult.skjermingsfradrag,
\* dividendAvailable)
DividendScenarioDistributed(profit, input, amount, retainedBeforeTax, retainedAfterTax, dividendAvailable, totalCorporateTax) ==
  DividendScenarioShielded(profit, input, amount, retainedBeforeTax, retainedAfterTax,
           dividendAvailable,
           AppliedSkjermingsfradrag(
             calculateSkjermingsfradrag(input.shareCostBasis,
                                        JsUndefined).skjermingsfradrag,
             dividendAvailable),
           totalCorporateTax)

\* an amount less the corporate tax on it
DividendScenarioAfterTax(amount, rate) ==
  DblSub(amount, DblMul(amount, rate))

\* the corporate tax on what is retained and on what is distributed: both
\* amounts after tax
DividendScenarioCompany(profit, input, amount, retainedBeforeTax, availableForDividend, corporateTaxResult) ==
  IF ~corporateTaxResult.ok THEN corporateTaxResult
  ELSE DividendScenarioDistributed(profit, input, amount, retainedBeforeTax,
                   DividendScenarioAfterTax(retainedBeforeTax, CORPORATE_TAX_RATE),
                   DividendScenarioAfterTax(availableForDividend, CORPORATE_TAX_RATE),
                   corporateTaxResult.corporateTax)

\* availableForDividend = profit - retainedBeforeTax
DividendScenarioSplit(profit, input, amount, retainedBeforeTax) ==
  DividendScenarioCompany(profit, input, amount, retainedBeforeTax,
          DblSub(amount, retainedBeforeTax), calculateCorporateTax(profit))

\* n holds the numbers profit and retentionPercentage convert to
DividendScenarioOf(profit, input, n) ==
  DividendScenarioSplit(profit, input, n[1], RetainedBeforeTax(n[1], n[2]))

DividendScenarioWith(profit, input) ==
  DividendScenarioOf(profit, input, ToNumbers(profit, input.retentionPercentage))

DividendScenarioDestructured(profit, options) ==
  IF options.t = "null" THEN CannotDestructure("retentionPercentage")
  ELSE DividendScenarioWith(profit, [profit |-> profit,
             retentionPercentage |->
               DefaultTo(Property(options, "retentionPercentage"), JsNumber(0)),
             shareCostBasis |->
               DefaultTo(Property(options, "shareCostBasis"), JsNumber(0))])

\* calculateDividendScenario(profit, options = {}) with the options
\* {retentionPercentage = 0, shareCostBasis = 0}
calculateDividendScenario(profit, optionsGiven) ==
  DividendScenarioDestructured(profit, DefaultTo(optionsGiven, EmptyObject))

\* ------------------------------------------------------------------------
\* Combination and optimisation (calculations/combinationCalculations.js)
\* ------------------------------------------------------------------------

\* the employee contribution charged on the salary part of a combination
CombinationTrygdeavgift(grossSalary) ==
  DblMul(grossSalary, SOCIAL_SECURITY_RATES.salary)

\* a combination that deducts the shielding deduction of the cost basis
CombinationSkjermingsfradrag_Applied(shareCostBasis) ==
  calculateSkjermingsfradrag(shareCostBasis, JsUndefined).skjermingsfradrag

\* the skjermingsfradrag argument of the combination's call
\* calculateDividendTax(dividendAvailable, 0), whatever the share cost basis
CombinationSkjermingsfradrag(shareCostBasis) == JsNumber(0)

\* the input check of calculateCombinationScenario
RatioOutOfRange(salaryRatio) ==
  DblLess(salaryRatio, JsNumber(0)) \/ DblGreater(salaryRatio, JsNumber(100))

\* `Kombinasjon (${salaryRatio.toFixed(0)}% lønn / ${(100-salaryRatio).toFixed(0)}% utbytte)`
CombinationNameOf(shares) ==
  "Kombinasjon (" \o shares[1] \o "% lønn / " \o shares[2] \o "% utbytte)"

CombinationName(salaryRatio) ==
  CombinationNameOf([i \in 1 .. 2 |->
                       NumberToFixed0(IF i = 1 THEN salaryRatio
                                      ELSE DblSub(JsNumber(100), salaryRatio))])

\* the returned object
CombinationScenarioReturned(profit, salaryRatio, input, retainedAmount, retainedAfterTax, salaryPortion, dividendPortion, grossSalary, employerAGA, pensionContribution, trygdeavgift, trinnskatt, inntektsskatt, totalSalaryTax, netSalary, dividendDistributed, corporateTax, dividendTax, netDividend, totalTax, netPrivatePayout, effectiveTaxRate) ==
  [ok |-> TRUE,
   scenarioType |-> "combination",
   scenarioName |-> CombinationName(salaryRatio),
   input |-> input,
   company |->
     [profit |-> profit,
      retainedAmount |-> retainedAmount,
      retainedAfterTax |-> retainedAfterTax,
      salaryPortion |-> salaryPortion,
      dividendPortion |-> dividendPortion,
      grossSalaryPaid |-> grossSalary,
      employerAGA |-> employerAGA,
      pensionContribution |-> pensionContribution,
      corporateTax |-> corporateTax,
      dividendDistributed |-> dividendDistributed],
   personal |->
     [grossSalary |-> grossSalary,
      trygdeavgift |-> trygdeavgift,
      trinnskatt |-> trinnskatt,
      inntektsskatt |-> inntektsskatt,
      totalSalaryTax |-> totalSalaryTax,
      netSalary |-> netSalary,
      dividendReceived |-> dividendDistributed,
      dividendTax |-> dividendTax,
      netDividend |-> netDividend,
      pensionAccrued |-> pensionContribution],
   taxSummary |->
     [employerAGA |-> employerAGA,
      corporateTax |-> corporateTax,
      salaryTax |-> totalSalaryTax,
      dividendTax |-> dividendTax,
      totalTax |-> totalTax,
      effectiveTaxRate |-> effectiveTaxRate],
   results |->
     [netPrivatePayout |-> netPrivatePayout,
      totalTaxPaid |-> totalTax,
      effectiveTaxRate |-> effectiveTaxRate,
      retainedInCompany |-> retainedAfterTax]]

\* the rounded amounts of the returned object, netPrivatePayout =
\* netSalary + netDividend, effectiveTaxRate = profit > 0 ? totalTax /
\* profit : 0 and retainedAfterTax = retainedAmount - corporateTaxOnRetained
CombinationScenarioTotalled(profit, salaryRatio, input, amount, retainedAmount, salaryPortion, dividendPortion, grossSalary, employerAGA, pensionContribution, trygdeavgift, trinnskatt, inntektsskatt, totalSalaryTax, netSalary, dividendAvailable, corporateTaxOnRetained, totalCorporateTax, dividendTax, netDividend, totalTax) ==
  CombinationScenarioReturned(profit, salaryRatio, input,
           MathRound(retainedAmount),
           MathRound(DblSub(retainedAmount, corporateTaxOnRetained)),
           MathRound(salaryPortion),
           MathRound(dividendPortion),
           grossSalary,
           MathRound(employerAGA),
           MathRound(pensionContribution),
           MathRound(trygdeavgift),
           MathRound(trinnskatt),
           MathRound(inntektsskatt),
           MathRound(totalSalaryTax),
           MathRound(netSalary),
           MathRound(dividendAvailable),
           MathRound(totalCorporateTax),
           MathRound(dividendTax),
           MathRound(netDividend),
           MathRound(totalTax),
           MathRound(DblAdd(netSalary, netDividend)),
           IF DblGreater(amount, JsNumber(0)) THEN DblDiv(totalTax, amount)
           ELSE JsNumber(0))

\* totalTax = employerAGA + totalSalaryTax + totalCorporateTax + dividendTax
CombinationScenarioDistributed(profit, salaryRatio, input, amount, retainedAmount, salaryPortion, dividendPortion, grossSalary, employerAGA, pensionContribution, trygdeavgift, trinnskatt, inntektsskatt, totalSalaryTax, netSalary, dividendAvailable, corporateTaxOnRetained, totalCorporateTax, dividendTaxResult) ==
  IF ~dividendTaxResult.ok THEN dividendTaxResult
  ELSE CombinationScenarioTotalled(profit, salaryRatio, input, amount, retainedAmount, salaryPortion,
                dividendPortion, grossSalary, employerAGA,
                pensionContribution, trygdeavgift, trinnskatt,
                inntektsskatt, totalSalaryTax, netSalary, dividendAvailable,
                corporateTaxOnRetained, totalCorporateTax,
                dividendTaxResult.dividendTax, dividendTaxResult.netDividend,
                DblAdd(DblAdd(DblAdd(employerAGA, totalSalaryTax),
                              totalCorporateTax),
                       dividendTaxResult.dividendTax))

\* the dividend part; the shareholder allowance is not applied here
CombinationScenarioCompany(profit, salaryRatio, input, amount, retainedAmount, salaryPortion, dividendPortion, grossSalary, employerAGA, pensionContribution, trygdeavgift, trinnskatt, inntektsskatt, totalSalaryTax, netSalary, corporateTaxOnDividend, dividendAvailable, corporateTaxOnRetained) ==
  CombinationScenarioDistributed(profit, salaryRatio, input, amount, retainedAmount, salaryPortion, dividendPortion,
              grossSalary, employerAGA, pensionContribution, trygdeavgift,
              trinnskatt, inntektsskatt, totalSalaryTax, netSalary,
              dividendAvailable, corporateTaxOnRetained,
              DblAdd(corporateTaxOnDividend, corporateTaxOnRetained),
              calculateDividendTax(dividendAvailable,
                                   CombinationSkjermingsfradrag(input.shareCostBasis)))

\* corporateTaxOnDividend = dividendPortion * CORPORATE_TAX_RATE,
\* dividendAvailable = dividendPortion - corporateTaxOnDividend and
\* corporateTaxOnRetained = retainedAmount * CORPORATE_TAX_RATE
CombinationScenarioDividend(profit, salaryRatio, input, amount, retainedAmount, salaryPortion, dividendPortion, grossSalary, employerAGA, pensionContribution, trygdeavgift, trinnskatt, inntektsskatt, totalSalaryTax, netSalary, corporateTaxes) ==
  CombinationScenarioCompany(profit, salaryRatio, input, amount, retainedAmount, salaryPortion, dividendPortion,
          grossSalary, employerAGA, pensionContribution, trygdeavgift,
          trinnskatt, inntektsskatt, totalSalaryTax, netSalary,
          corporateTaxes[1],
          DblSub(dividendPortion, corporateTaxes[1]),
          corporateTaxes[2])

\* netSalary = grossSalary - totalSalaryTax
CombinationScenarioSummed(profit, salaryRatio, input, amount, retainedAmount, salaryPortion, dividendPortion, grossSalary, employerAGA, pensionContribution, trygdeavgift, trinnskatt, inntektsskatt, totalSalaryTax) ==
  CombinationScenarioDividend(profit, salaryRatio, input, amount, retainedAmount, salaryPortion, dividendPortion,
           grossSalary, employerAGA, pensionContribution, trygdeavgift,
           trinnskatt, inntektsskatt, totalSalaryTax,
           DblSub(grossSalary, totalSalaryTax),
           [i \in 1 .. 2 |->
              DblMul(IF i = 1 THEN dividendPortion ELSE retainedAmount,
                     CORPORATE_TAX_RATE)])

\* totalSalaryTax = trygdeavgift + trinnskatt + inntektsskatt
CombinationScenarioTaxed(profit, salaryRatio, input, amount, retainedAmount, salaryPortion, dividendPortion, grossSalary, employerAGA, pensionContribution, trygdeavgift, trinnskatt, inntektsskatt) ==
  CombinationScenarioSummed(profit, salaryRatio, input, amount, retainedAmount, salaryPortion, dividendPortion,
         grossSalary, employerAGA, pensionContribution, trygdeavgift,
         trinnskatt, inntektsskatt,
         DblAdd(DblAdd(trygdeavgift, trinnskatt), inntektsskatt))

\* the employee contribution, the bracket tax and inntektsskatt =
\* taxableIncome * PERSONAL_TAX_RATE
CombinationScenarioDeducted(profit, salaryRatio, input, amount, retainedAmount, salaryPortion, dividendPortion, grossSalary, employerAGA, pensionContribution, taxableIncome) ==
  CombinationScenarioTaxed(profit, salaryRatio, input, amount, retainedAmount, salaryPortion, dividendPortion,
        grossSalary, employerAGA, pensionContribution,
        CombinationTrygdeavgift(grossSalary),
        BracketLoop([totalBracketTax |-> JsNumber(0), breakdown |-> << >>],
                    grossSalary, BRACKET_TAX_2025, 1).totalBracketTax,
        DblMul(taxableIncome, PERSONAL_TAX_RATE))

\* taxableIncome = Math.max(0, grossSalary - minstefradrag - PERSONFRADRAG)
CombinationScenarioSalaried(profit, salaryRatio, input, amount, retainedAmount, salaryPortion, dividendPortion, grossSalary, employerAGA, pensionContribution, minstefradrag) ==
  CombinationScenarioDeducted(profit, salaryRatio, input, amount, retainedAmount, salaryPortion, dividendPortion,
           grossSalary, employerAGA, pensionContribution,
           MathMax(JsNumber(0),
                   DblSub(DblSub(grossSalary, minstefradrag), PERSONFRADRAG)))

\* the salary part: gross salary, employer contribution and pension
CombinationScenarioPaid(profit, salaryRatio, input, amount, retainedAmount, salaryPortion, dividendPortion, salaryCalc) ==
  IF ~salaryCalc.ok THEN salaryCalc
  ELSE CombinationScenarioSalaried(profit, salaryRatio, input, amount, retainedAmount, salaryPortion,
                dividendPortion, salaryCalc.grossSalary,
                salaryCalc.employerAGA,
                JsOr(salaryCalc.pensionContribution, JsNumber(0)),
                MinstefradragAmount(salaryCalc.grossSalary, MINSTEFRADRAG))

\* dividendPortion = availableForExtraction - salaryPortion
CombinationScenarioSplit(profit, zone, salaryRatio, input, amount, retainedAmount, availableForExtraction, salaryPortion) ==
  IF Nullish(salaryRatio) THEN CannotRead(salaryRatio, "toFixed")
  ELSE IF ~HasToFixed(salaryRatio) THEN NotAFunction("salaryRatio.toFixed")
  ELSE CombinationScenarioPaid(profit, salaryRatio, input, amount, retainedAmount, salaryPortion,
            DblSub(availableForExtraction, salaryPortion),
            calculateMaxGrossSalary(salaryPortion, zone, input.includePension,
                                    input.pensionRate))

\* salaryPortion = availableForExtraction * (salaryRatio / 100)
CombinationScenarioRetained(profit, zone, salaryRatio, input, amount, ratio, retainedAmount, availableForExtraction) ==
  IF Nullish(profit) THEN CannotRead(profit, "toLocaleString")
  ELSE CombinationScenarioSplit(profit, zone, salaryRatio, input, amount, retainedAmount, availableForExtraction,
             DblMul(availableForExtraction, DblDiv(ratio, JsNumber(100))))

\* availableForExtraction = profit - retainedAmount
CombinationScenarioWith(profit, zone, salaryRatio, input, amount, ratio, retainedAmount) ==
  CombinationScenarioRetained(profit, zone, salaryRatio, input, amount, ratio, retainedAmount,
           DblSub(amount, retainedAmount))

\* retainedAmount = profit * retentionPercentage; n holds the numbers
\* profit, retentionPercentage and salaryRatio convert to
CombinationScenarioChecked(profit, zone, salaryRatio, input, n) ==
  IF RatioOutOfRange(n[3])
  THEN Thrown("Salary ratio must be between 0 and 100")
  ELSE CombinationScenarioWith(profit, zone, salaryRatio, [input EXCEPT !.dividendRatio = DblSub(JsNumber(100), n[3])],
            n[1], n[3], DblMul(n[1], n[2]))

CombinationScenarioOf(profit, zone, salaryRatio, input) ==
  CombinationScenarioChecked(profit, zone, salaryRatio, input,
          ToNumbersOf(<<profit, input.retentionPercentage, salaryRatio>>))

CombinationScenarioDestructured(profit, zone, salaryRatio, options) ==
  IF options.t = "null" THEN CannotDestructure("includePension")
  ELSE CombinationScenarioOf(profit, zone, salaryRatio, [profit |-> profit,
           zone |-> zone,
           salaryRatio |-> salaryRatio,
           dividendRatio |-> JsUndefined,
           includePension |->
             DefaultTo(Property(options, "includePension"), JsBoolean(FALSE)),
           pensionRate |->
             DefaultTo(Property(options, "pensionRate"), JsFraction(2, 100)),
           retentionPercentage |->
             DefaultTo(Property(options, "retentionPercentage"), JsNumber(0)),
           shareCostBasis |->
             DefaultTo(Property(options, "shareCostBasis"), JsNumber(0))])

\* calculateCombinationScenario(profit, zone, salaryRatio, options = {}) with
\* the options {includePension = false, pensionRate = 0.02,
\* retentionPercentage = 0, shareCostBasis = 0}
calculateCombinationScenario(profit, zone, salaryRatio, optionsGiven) ==
  CombinationScenarioDestructured(profit, zone, salaryRatio, DefaultTo(optionsGiven, EmptyObject))

\* the scenario options findOptimalRatio destructures from its options and
\* hands to the scenarios of its search
ScenarioOptions(options) ==
  JsObject([includePension |->
              DefaultTo(Property(options, "includePension"), JsBoolean(FALSE)),
            pensionRate |->
              DefaultTo(Property(options, "pensionRate"), JsFraction(2, 100)),
            retentionPercentage |->
              DefaultTo(Property(options, "retentionPercentage"), JsNumber(0)),
            shareCostBasis |->
              DefaultTo(Property(options, "shareCostBasis"), JsNumber(0))])

\* const { searchStep = 1, ... } = options
SearchStepOf(options) == DefaultTo(Property(options, "searchStep"), JsNumber(1))

\* the variables of findOptimalRatio before the first pass of its loop
SearchStart ==
  [ratio |-> JsNumber(0),
   optimalRatio |-> JsNumber(0),
   optimalNetPayout |-> JsNumber(0),
   optimalTax |-> Infinity,
   searchResults |-> << >>]

\* the loop condition ratio <= 100
SearchContinues(st) == DblLeq(ToNumber(st.ratio), JsNumber(100))

\* the ratio of the loop has risen above the 0 it started from
SearchRises(st) == DblGreater(ToNumber(st.ratio), JsNumber(0))

\* a comparison under which a later ratio of equal payout replaces the best
BetterPayout_LastSeen(netPayout, optimalNetPayout) ==
  DblGeq(netPayout, optimalNetPayout)

\* if (scenario.results.netPrivatePayout > optimalNetPayout)
BetterPayout(netPayout, optimalNetPayout) == DblGreater(netPayout, optimalNetPayout)

SearchIterationCompared(st, nextRatio, results, better) ==
  [ratio |-> nextRatio,
   optimalRatio |-> IF better THEN st.ratio ELSE st.optimalRatio,
   optimalNetPayout |->
     IF better THEN results.netPrivatePayout ELSE st.optimalNetPayout,
   optimalTax |-> IF better THEN results.totalTaxPaid ELSE st.optimalTax,
   searchResults |->
     Append(st.searchResults,
            [salaryRatio |-> st.ratio,
             netPayout |-> results.netPrivatePayout,
             totalTax |-> results.totalTaxPaid,
             effectiveRate |-> results.effectiveTaxRate])]

SearchIterationTried(st, nextRatio, scenario) ==
  IF ~scenario.ok THEN [st EXCEPT !.ratio = nextRatio]
  ELSE SearchIterationCompared(st, nextRatio, scenario.results,
                BetterPayout(scenario.results.netPrivatePayout,
                             st.optimalNetPayout))

\* one pass of the loop body at st.ratio, followed by ratio += searchStep;
\* a ratio whose scenario throws is skipped
SearchIteration(profit, zone, options, st) ==
  SearchIterationTried(st, JsAdd(st.ratio, SearchStepOf(options)),
        calculateCombinationScenario(profit, zone, st.ratio,
                                     ScenarioOptions(options)))

BaselineEntry(ratio, scenario) ==
  [ratio |-> JsNumber(ratio),
   netPayout |-> scenario.results.netPrivatePayout,
   totalTax |-> scenario.results.totalTaxPaid,
   effectiveRate |-> scenario.results.effectiveTaxRate]

\* `Optimalisert (${optimalRatio}% lønn / ${100-optimalRatio}% utbytte)`;
\* the optimal ratio is a number, the one the search started from or one a
\* scenario was calculated at
OptimalNameOf(shares) ==
  "Optimalisert (" \o shares[1] \o "% lønn / " \o shares[2] \o "% utbytte)"

OptimalName(optimalRatio) ==
  OptimalNameOf([i \in 1 .. 2 |->
                   NumberToString(IF i = 1 THEN optimalRatio
                                  ELSE DblSub(JsNumber(100), optimalRatio))])

\* the ratios of the four scenarios calculated after the loop: the optimal
\* one, scenario100Salary, scenario100Dividend and scenario5050
FinishRatios(optimalRatio) ==
  <<optimalRatio, JsNumber(100), JsNumber(0), JsNumber(50)>>

SearchFinishSaved(optimalNetPayout, netPayouts) ==
  [vsAllSalary |-> DblSub(optimalNetPayout, netPayouts[1]),
   vsAllDividend |-> DblSub(optimalNetPayout, netPayouts[2]),
   vsSplit5050 |-> DblSub(optimalNetPayout, netPayouts[3])]

SearchFinishReturned(profit, st, optimalScenario, scenario100Salary, scenario100Dividend, scenario5050) ==
  IF ~optimalScenario.ok THEN optimalScenario
  ELSE IF ~scenario100Salary.ok THEN scenario100Salary
  ELSE IF ~scenario100Dividend.ok THEN scenario100Dividend
  ELSE IF ~scenario5050.ok THEN scenario5050
  ELSE
    [ok |-> TRUE,
     optimalRatio |-> st.optimalRatio,
     optimalScenario |->
       [optimalScenario EXCEPT !.scenarioName = OptimalName(st.optimalRatio)],
     searchResults |-> st.searchResults,
     comparison |->
       [optimal |->
          [ratio |-> st.optimalRatio,
           netPayout |-> st.optimalNetPayout,
           totalTax |-> st.optimalTax,
           effectiveRate |-> DblDiv(st.optimalTax, ToNumber(profit))],
        allSalary |-> BaselineEntry(100, scenario100Salary),
        allDividend |-> BaselineEntry(0, scenario100Dividend),
        split5050 |-> BaselineEntry(50, scenario5050)],
     savings |->
       SearchFinishSaved(st.optimalNetPayout,
             <<scenario100Salary.results.netPrivatePayout,
               scenario100Dividend.results.netPrivatePayout,
               scenario5050.results.netPrivatePayout>>)]

SearchFinishCalculated(profit, st, scenarios) ==
  SearchFinishReturned(profit, st, scenarios[1], scenarios[2], scenarios[3], scenarios[4])

SearchFinishAt(profit, zone, options, st, ratios) ==
  SearchFinishCalculated(profit, st, [i \in 1 .. 4 |->
                calculateCombinationScenario(
                  profit, zone, ratios[i],
                  IF i = 1 THEN ScenarioOptions(options) ELSE options)]
             \o << >>)

\* the part of findOptimalRatio after the loop: the optimal scenario, the
\* three baselines, the comparison and the savings; the optimal scenario is
\* calculated with the destructured options, the baselines with the options
\* as they were given
SearchFinish(profit, zone, options, st) ==
  SearchFinishAt(profit, zone, options, st, FinishRatios(st.optimalRatio))

\* bp.totalCostWithAGA = bp.marginalTaxRate + agaRate * (1 - bp.marginalTaxRate)
BreakpointEntry(bracket, i, rate, marginalTaxRate) ==
  [name |-> "Trinnskatt trinn " \o IntToString(i),
   threshold |-> bracket.threshold,
   marginalTaxRate |-> marginalTaxRate,
   totalCostWithAGA |->
     DblAdd(marginalTaxRate,
            DblMul(rate, DblSub(JsNumber(1), marginalTaxRate)))]

\* bp.marginalTaxRate = baseMarginalRate + bracketRate
BreakpointsListed(zone, brackets, agaRate, rate, baseMarginalRate, dividendRate) ==
  [ok |-> TRUE,
   zone |-> zone,
   agaRate |-> agaRate,
   breakpoints |->
     [i \in 1 .. Len(brackets) |->
        BreakpointEntry(brackets[i], i, rate,
                   DblAdd(baseMarginalRate, brackets[i].rate))],
   dividendEffectiveRate |-> dividendRate,
   combinedDividendRate |->
     DblSub(JsNumber(1),
            DblMul(DblSub(JsNumber(1), CORPORATE_TAX_RATE),
                   DblSub(JsNumber(1), dividendRate)))]

\* baseMarginalRate = PERSONAL_TAX_RATE + SOCIAL_SECURITY_RATES.salary;
\* the rate enters the arithmetic as the number it converts to
BreakpointsOf(zone, agaRate) ==
  BreakpointsListed(zone, BRACKET_TAX_2025, agaRate, ToNumber(agaRate),
         DblAdd(PERSONAL_TAX_RATE, SOCIAL_SECURITY_RATES.salary),
         EFFECTIVE_DIVIDEND_TAX_RATE)

\* calculateBreakpoints(zone): the rate lookup is not checked, an unknown
\* zone gives agaRate undefined and NaN wherever it enters the arithmetic
calculateBreakpoints(zone) ==
  BreakpointsOf(zone, RateOfZone(zone))

\* ------------------------------------------------------------------------
\* Input validation (validation/inputValidation.js)
\* ------------------------------------------------------------------------

VALIDATION_LIMITS ==
  [MIN_PROFIT |-> JsNumber(0),
   MAX_PROFIT |-> DblMul(JsNumber(100000), JsNumber(1000000)),
   MIN_PERCENTAGE |-> JsNumber(0),
   MAX_PERCENTAGE |-> JsNumber(100)]

\* VALIDATION_LIMITS.MAX_PROFIT.toLocaleString('nb-NO'): groups of three
\* digits with a no-break space between them
MaxProfitText == "100 000 000 000"

\* { isValid: false, errors: [message], value: null }
Invalid(message) == [isValid |-> FALSE, errors |-> <<message>>, value |-> JsNull]

\* { isValid: true, errors: [], value }
Valid(value) == [isValid |-> TRUE, errors |-> << >>, value |-> value]

\* const numericProfit = Number(profit) and the checks on it
NumericProfit(numericProfit, limits) ==
  IF numericProfit.k = "nan"
  THEN Invalid("Overskudd må være et tall (Profit must be a number)")
  ELSE IF DblLess(numericProfit, limits.MIN_PROFIT)
  THEN Invalid("Overskudd kan ikke være negativt (Profit cannot be negative)")
  ELSE IF DblGreater(numericProfit, limits.MAX_PROFIT)
  THEN Invalid("Overskudd overstiger maksimalt tillatt beløp på "
                 \o MaxProfitText \o " kr")
  ELSE Valid(numericProfit)

validateProfit(profit) ==
  IF Missing(profit)
  THEN Invalid("Overskudd før skatt er påkrevd (Annual profit before tax is required)")
  ELSE NumericProfit(ToNumber(profit), VALIDATION_LIMITS)

\* Object.keys(EMPLOYER_SOCIAL_SECURITY_RATES): the keys that are written as
\* a whole number come first, in ascending order, the others follow in the
\* order of the table
ValidZones == <<"1", "2", "3", "4", "5", "1a", "4a">>

\* validZones.join(', ')
RECURSIVE JoinedFrom(_, _)
JoinedFrom(names, i) ==
  IF i > Len(names) THEN ""
  ELSE (IF i > 1 THEN ", " ELSE "") \o names[i] \o JoinedFrom(names, i + 1)

\* names.includes(v)
Includes(names, v) == v.t = "string" /\ \E i \in 1 .. Len(names) : names[i] = v.s

\* const zoneStr = String(zone) and the check on it
ZoneStr(zoneStr, listed) ==
  IF ~Includes(ValidZones, JsString(zoneStr))
  THEN Invalid("Ugyldig sone. Gyldige verdier er: " \o listed
                 \o " (Invalid zone. Valid values are: " \o listed \o ")")
  ELSE Valid(JsString(zoneStr))

validateEmployerZone(zone) ==
  IF Missing(zone)
  THEN Invalid("Arbeidsgiveravgiftssone er påkrevd (Employer social security zone is required)")
  ELSE ZoneStr(StringOf(zone), JoinedFrom(ValidZones, 1))

\* const numericPercentage = Number(percentage) and the checks on it
NumericPercentage(numericPercentage, fieldName, limits) ==
  IF numericPercentage.k = "nan"
  THEN Invalid(fieldName \o " må være et tall (" \o fieldName \o " must be a number)")
  ELSE IF DblLess(numericPercentage, limits.MIN_PERCENTAGE)
          \/ DblGreater(numericPercentage, limits.MAX_PERCENTAGE)
  THEN Invalid(fieldName \o " må være mellom 0 og 100 (" \o fieldName
                 \o " must be between 0 and 100)")
  ELSE Valid(numericPercentage)

validatePercentage(percentage, fieldName) ==
  IF Missing(percentage)
  THEN Invalid(fieldName \o " er påkrevd (" \o fieldName \o " is required)")
  ELSE NumericPercentage(ToNumber(percentage), fieldName, VALIDATION_LIMITS)

ValidTypes == <<"salary", "dividend", "combination">>

WithdrawalStrategyCombination(salaryRatioResult) ==
  IF ~salaryRatioResult.isValid THEN salaryRatioResult
  ELSE Valid(JsObject([type |-> JsString("combination"),
                       salaryRatio |-> salaryRatioResult.value,
                       dividendRatio |->
                         DblSub(JsNumber(100), salaryRatioResult.value)]))

WithdrawalStrategyTyped(strategy, type) ==
  IF ~Includes(ValidTypes, type)
  THEN Invalid("Ugyldig strategitype. Gyldige verdier er: "
                 \o JoinedFrom(ValidTypes, 1))
  ELSE IF type.s = "combination"
  THEN WithdrawalStrategyCombination(validatePercentage(Property(strategy, "salaryRatio"),
                                      "Lønnsandel"))
  ELSE Valid(JsObject([type |-> type,
                       salaryRatio |->
                         JsNumber(IF type.s = "salary" THEN 100 ELSE 0),
                       dividendRatio |->
                         JsNumber(IF type.s = "dividend" THEN 100 ELSE 0)]))

validateWithdrawalStrategy(strategy) ==
  IF Falsy(strategy) \/ TypeOf(strategy) # "object"
  THEN Invalid("Uttaksstrategi er påkrevd (Withdrawal strategy is required)")
  ELSE WithdrawalStrategyTyped(strategy, Property(strategy, "type"))

\* !settings || settings.enabled === false
NotEnabled(settings) ==
  Falsy(settings) \/ StrictEquals(Property(settings, "enabled"), JsBoolean(FALSE))

\* the checks on rateAsPercentage and rateAsDecimal = isDecimal ? rate :
\* rate / 100
PensionSettingsConverted(rate, number, isDecimal, rateAsPercentage) ==
  IF rateAsPercentage.k = "nan"
  THEN Invalid("Pensjonssats må være et tall (Pension rate must be a number)")
  ELSE IF DblLess(rateAsPercentage, JsNumber(2))
  THEN Invalid("Pensjonssats må være minst 2% (OTP minimum) (Pension rate must be at least 2%)")
  ELSE IF DblGreater(rateAsPercentage, JsNumber(7))
  THEN Invalid("Pensjonssats over 7% er ikke fradragsberettiget (Pension rate above 7% is not tax-deductible)")
  ELSE Valid(JsObject([enabled |-> JsBoolean(TRUE),
                       rate |-> IF isDecimal THEN rate
                                ELSE DblDiv(number, JsNumber(100))]))

\* rateAsPercentage = isDecimal ? rate * 100 : rate, which is compared
\* as the number it converts to
PensionSettingsScaled(rate, number, isDecimal) ==
  PensionSettingsConverted(rate, number, isDecimal,
            IF isDecimal THEN DblMul(number, JsNumber(100)) ELSE number)

\* isDecimal = rate > 0 && rate < 1; number is the number rate converts
\* to
PensionSettingsEnabled(rate, number) ==
  PensionSettingsScaled(rate, number,
         DblGreater(number, JsNumber(0)) /\ DblLess(number, JsNumber(1)))

PensionSettingsRated(rate) ==
  PensionSettingsEnabled(rate, ToNumber(rate))

validatePensionSettings(pensionSettings) ==
  IF NotEnabled(pensionSettings)
  THEN Valid(JsObject([enabled |-> JsBoolean(FALSE), rate |-> JsNumber(0)]))
  ELSE IF StrictEquals(Property(pensionSettings, "enabled"), JsBoolean(TRUE))
  THEN PensionSettingsRated(Property(pensionSettings, "rate"))
  ELSE Invalid("Ugyldig pensjonsinnstilling (Invalid pension setting)")

RetentionSettingsEnabled(percentageResult) ==
  IF ~percentageResult.isValid THEN percentageResult
  ELSE Valid(JsObject([enabled |-> JsBoolean(TRUE),
                       percentage |->
                         DblDiv(percentageResult.value, JsNumber(100))]))

validateRetentionSettings(retentionSettings) ==
  IF NotEnabled(retentionSettings)
  THEN Valid(JsObject([enabled |-> JsBoolean(FALSE), percentage |-> JsNumber(0)]))
  ELSE IF StrictEquals(Property(retentionSettings, "enabled"), JsBoolean(TRUE))
  THEN RetentionSettingsEnabled(validatePercentage(Property(retentionSettings, "percentage"),
                                  "Tilbakeholdelsesprosent"))
  ELSE Invalid("Ugyldig tilbakeholdelsesinnstilling (Invalid retention setting)")

\* const numericCostBasis = Number(costBasis) and the checks on it
NumericCostBasis(numericCostBasis) ==
  IF numericCostBasis.k = "nan"
  THEN Invalid("Inngangsverdi må være et tall (Cost basis must be a number)")
  ELSE IF DblLess(numericCostBasis, JsNumber(0))
  THEN Invalid("Inngangsverdi kan ikke være negativ (Cost basis cannot be negative)")
  ELSE Valid(numericCostBasis)

validateShareCostBasis(costBasis) ==
  IF Missing(costBasis)
  THEN [isValid |-> TRUE, errors |-> << >>, value |-> JsNull,
        warning |-> "Inngangsverdi ikke oppgitt - skjermingsfradrag beregnes ikke"]
  ELSE NumericCostBasis(ToNumber(costBasis))

\* an error list that keeps only the message of the first field that failed
PushErrors_FirstOnly(errors, result) ==
  IF result.isValid \/ errors # << >> THEN errors ELSE errors \o result.errors

\* if (!result.isValid) errors.push(...result.errors)
PushErrors(errors, result) ==
  IF result.isValid THEN errors ELSE errors \o result.errors

\* the six validators in the order validateCalculationInput calls them
FieldResults(input) ==
  << validateProfit(Property(input, "profit")),
     validateEmployerZone(Property(input, "employerZone")),
     validateWithdrawalStrategy(Property(input, "withdrawalStrategy")),
     validatePensionSettings(Property(input, "pension")),
     validateRetentionSettings(Property(input, "retention")),
     validateShareCostBasis(Property(input, "shareCostBasis")) >>

CalculationInputCollected(results, errors) ==
  [ok |-> TRUE,
   isValid |-> errors = << >>,
   errors |-> errors,
   warnings |->
     IF results[6].isValid /\ "warning" \in DOMAIN results[6]
     THEN <<results[6].warning>> ELSE << >>,
   sanitizedInput |->
     IF errors = << >>
     THEN JsObject([profit |-> results[1].value,
                    employerZone |-> results[2].value,
                    withdrawalStrategy |-> results[3].value,
                    pension |-> results[4].value,
                    retention |-> results[5].value,
                    shareCostBasis |-> results[6].value])
     ELSE JsNull]

CalculationInputValidated(results) ==
  CalculationInputCollected(results,
            PushErrors(
              PushErrors(
                PushErrors(
                  PushErrors(
                    PushErrors(PushErrors(<< >>, results[1]), results[2]),
                    results[3]),
                  results[4]),
                results[5]),
              results[6]))

validateCalculationInput(input) ==
  IF Nullish(input) THEN CannotRead(input, "profit")
  ELSE CalculationInputValidated(FieldResults(input))

\* ------------------------------------------------------------------------
\* findOptimalRatio as one call
\* ------------------------------------------------------------------------

\* for (let ratio = 0; ratio <= 100; ratio += searchStep) { ... }
RECURSIVE SearchLoop(_, _, _, _)
SearchLoop(profit, zone, options, st) ==
  IF SearchContinues(st)
  THEN SearchLoop(profit, zone, options, SearchIteration(profit, zone, options, st))
  ELSE st

OptimalRatioDestructured(profit, zone, options) ==
  IF options.t = "null" THEN CannotDestructure("searchStep")
  ELSE SearchFinish(profit, zone, options,
                    SearchLoop(profit, zone, options, SearchStart))

\* findOptimalRatio(profit, zone, options = {}) for a search that ends
findOptimalRatio(profit, zone, optionsGiven) ==
  OptimalRatioDestructured(profit, zone, DefaultTo(optionsGiven, EmptyObject))

\* ------------------------------------------------------------------------
\* Scenario comparison (calculations/scenarioComparison.js)
\* ------------------------------------------------------------------------

\* A scenarios object is a function from its keys to scenarios. A scenario
\* is the record a calculator returns, or the record Thrown(message) for
\* { error: message }.

\* options that never include the pension contribution
GenOptions_PensionDropped(sanitizedInput) ==
  JsObject([includePension |-> JsBoolean(FALSE),
            pensionRate |->
              JsOr(OptionalProperty(Property(sanitizedInput, "pension"), "rate"),
                   JsFraction(2, 100)),
            retentionPercentage |->
              JsOr(OptionalProperty(Property(sanitizedInput, "retention"),
                                    "percentage"),
                   JsNumber(0)),
            shareCostBasis |->
              JsOr(Property(sanitizedInput, "shareCostBasis"), JsNumber(0))])

\* the options generateAllScenarios builds from the sanitized input
GenOptions(sanitizedInput) ==
  JsObject([includePension |->
              JsOr(OptionalProperty(Property(sanitizedInput, "pension"), "enabled"),
                   JsBoolean(FALSE)),
            pensionRate |->
              JsOr(OptionalProperty(Property(sanitizedInput, "pension"), "rate"),
                   JsFraction(2, 100)),
            retentionPercentage |->
              JsOr(OptionalProperty(Property(sanitizedInput, "retention"),
                                    "percentage"),
                   JsNumber(0)),
            shareCostBasis |->
              JsOr(Property(sanitizedInput, "shareCostBasis"), JsNumber(0))])

\* { a: options.a, b: options.b, ... } for the names given
Pick(options, names) == JsObject([key \in names |-> Property(options, key)])

\* { ...options, retentionPercentage: 0.3 }
RetentionOptions(options) ==
  JsObject([key \in DOMAIN options.fields \cup {"retentionPercentage"} |->
              IF key = "retentionPercentage" THEN JsFraction(3, 10)
              ELSE options.fields[key]])

\* options.retentionPercentage === 0
RetentionNotApplied(options) ==
  StrictEquals(Property(options, "retentionPercentage"), JsNumber(0))

\* scenarios.optimizationDetails?.optimalRatio || 50
RetentionRatio(found) ==
  IF "optimizationDetails" \in DOMAIN found
  THEN JsOr(found["optimizationDetails"].optimalRatio, JsNumber(50))
  ELSE JsNumber(50)

\* the optimizationDetails entry of the scenarios object (its analysis is
\* display text)
OptimizationDetails(optimizationResult) ==
  [optimalRatio |-> optimizationResult.optimalRatio,
   comparison |-> optimizationResult.comparison,
   savings |-> optimizationResult.savings]

\* scenario.error is set and not empty
HasError(scenario) == "error" \in DOMAIN scenario /\ scenario.error # ""

\* scenario.results?.name
ResultOf(scenario, name) ==
  IF "results" \in DOMAIN scenario /\ name \in DOMAIN scenario.results
  THEN scenario.results[name]
  ELSE JsUndefined

\* scenario.scenarioName || name
NameOf(scenario, name) ==
  IF "scenarioName" \in DOMAIN scenario /\ scenario.scenarioName # ""
  THEN scenario.scenarioName
  ELSE name

ScenarioList ==
  << [key |-> "allSalary", name |-> "100% Lønn"],
     [key |-> "allDividend", name |-> "100% Utbytte"],
     [key |-> "split5050", name |-> "50/50 Fordeling"],
     [key |-> "optimized", name |-> "Optimalisert"],
     [key |-> "withRetention", name |-> "Med tilbakeholdelse (30%)"] >>

\* (a, b) => b.netPayout - a.netPayout
ByNetPayout(a, b) == JsSub(b.netPayout, a.netPayout)

\* the comparator's answer is below zero; NaN counts as zero
Negative(order) == DblLess(order, JsNumber(0))

Reversed(rows) == [i \in 1 .. Len(rows) |-> rows[Len(rows) + 1 - i]]

\* the end of the run that starts the array: elements are added while each
\* compares with its predecessor as the second does with the first
RECURSIVE RunEnd(_, _, _)
RunEnd(rows, i, descending) ==
  IF i > Len(rows) THEN Len(rows)
  ELSE IF Negative(ByNetPayout(rows[i], rows[i - 1])) = descending
  THEN RunEnd(rows, i + 1, descending)
  ELSE i - 1

\* where the pivot goes among the first elements, by binary search; left and
\* right count the elements before the position
RECURSIVE InsertionPoint(_, _, _, _)
InsertionPoint(rows, pivot, left, right) ==
  IF left >= right THEN left
  ELSE IF Negative(ByNetPayout(pivot, rows[left + ((right - left) \div 2) + 1]))
  THEN InsertionPoint(rows, pivot, left, left + ((right - left) \div 2))
  ELSE InsertionPoint(rows, pivot, left + ((right - left) \div 2) + 1, right)

InsertedAt(rows, start, left) ==
  SubSeq(rows, 1, left) \o <<rows[start]>> \o SubSeq(rows, left + 1, start - 1)
    \o SubSeq(rows, start + 1, Len(rows))

\* the elements from position start on inserted one by one into the sorted
\* elements before them
RECURSIVE BinaryInsertionSort(_, _)
BinaryInsertionSort(rows, start) ==
  IF start > Len(rows) THEN rows
  ELSE BinaryInsertionSort(
         InsertedAt(rows, start, InsertionPoint(rows, rows[start], 0, start - 1)),
         start + 1)

\* the first run, turned round when it descends
RunMade(rows, descending, runLength) ==
  IF descending
  THEN Reversed(SubSeq(rows, 1, runLength)) \o SubSeq(rows, runLength + 1, Len(rows))
  ELSE rows

MergedFrom(rows, descending, runLength) ==
  BinaryInsertionSort(RunMade(rows, descending, runLength), runLength + 1)

CountedRun(rows, descending) == MergedFrom(rows, descending, RunEnd(rows, 3, descending))

\* Array.prototype.sort with the comparator above, as the runtime sorts an
\* array shorter than its shortest merge run: the first run is found and the
\* remaining elements are inserted into it
SortRows(rows) ==
  IF Len(rows) < 2 THEN rows
  ELSE CountedRun(rows, Negative(ByNetPayout(rows[2], rows[1])))

\* a sort that takes the rows in the opposite order, so that rows of equal
\* payout change places
SortByNetPayout_Unstable(rows) == SortRows(Reversed(rows))

\* rows.sort((a, b) => b.netPayout - a.netPayout)
SortByNetPayout(rows) == SortRows(rows)

\* the keys of the list, in its order, that get a row
RECURSIVE RowsFrom(_, _)
RowsFrom(scenarios, i) ==
  IF i > Len(ScenarioList) THEN << >>
  ELSE IF ScenarioList[i].key \in DOMAIN scenarios
          /\ ~HasError(scenarios[ScenarioList[i].key])
  THEN << [name |-> NameOf(scenarios[ScenarioList[i].key], ScenarioList[i].name),
           grossPayout |->
             JsAdd(ResultOf(scenarios[ScenarioList[i].key], "netPrivatePayout"),
                   ResultOf(scenarios[ScenarioList[i].key], "totalTaxPaid")),
           totalTax |-> ResultOf(scenarios[ScenarioList[i].key], "totalTaxPaid"),
           netPayout |-> ResultOf(scenarios[ScenarioList[i].key], "netPrivatePayout"),
           effectiveRate |->
             ResultOf(scenarios[ScenarioList[i].key], "effectiveTaxRate"),
           retained |->
             JsOr(ResultOf(scenarios[ScenarioList[i].key], "retainedInCompany"),
                  JsNumber(0))] >>
         \o RowsFrom(scenarios, i + 1)
  ELSE RowsFrom(scenarios, i + 1)

\* row.percentDifferenceFromBest = best.netPayout > 0
\*   ? (row.differenceFromBest / best.netPayout) * 100 : 0
ComparisonTableRanked(row, index, best, difference) ==
  [name |-> row.name,
   grossPayout |-> row.grossPayout,
   totalTax |-> row.totalTax,
   netPayout |-> row.netPayout,
   effectiveRate |-> row.effectiveRate,
   retained |-> row.retained,
   rank |-> JsNumber(index),
   differenceFromBest |-> difference,
   percentDifferenceFromBest |->
     IF DblGreater(best, JsNumber(0))
     THEN DblMul(DblDiv(difference, best), JsNumber(100))
     ELSE JsNumber(0)]

ComparisonTableReturned(rows) ==
  [rows |-> rows,
   bestScenario |->
     IF rows = << >> THEN JsUndefined ELSE JsString(rows[1].name),
   worstScenario |->
     IF rows = << >> THEN JsUndefined ELSE JsString(rows[Len(rows)].name),
   maxDifference |->
     IF rows = << >> THEN JsUndefined ELSE rows[Len(rows)].differenceFromBest]

\* row.differenceFromBest = best.netPayout - row.netPayout; payouts holds
\* the numbers the net payouts of the rows convert to
ComparisonTableDiffering(rows, payouts) ==
  ComparisonTableReturned([i \in 1 .. Len(rows) |->
              ComparisonTableRanked(rows[i], i, payouts[1], DblSub(payouts[1], payouts[i]))])

ComparisonTableCompared(rows) ==
  ComparisonTableDiffering(rows, ToNumbersOf([i \in 1 .. Len(rows) |-> rows[i].netPayout]))

\* generateComparisonTable(scenarios); the headers are fixed texts
generateComparisonTable(scenarios) ==
  ComparisonTableCompared(SortByNetPayout(RowsFrom(scenarios, 1)))

RecommendedKeys == <<"allSalary", "allDividend", "split5050", "optimized">>

\* the results generateRecommendations collects: s && !s.error && s.results
RECURSIVE ResultsFrom(_, _)
ResultsFrom(scenarios, i) ==
  IF i > Len(RecommendedKeys) THEN << >>
  ELSE IF RecommendedKeys[i] \in DOMAIN scenarios
          /\ ~HasError(scenarios[RecommendedKeys[i]])
          /\ "results" \in DOMAIN scenarios[RecommendedKeys[i]]
  THEN << [key |-> RecommendedKeys[i],
           name |->
             IF "scenarioName" \in DOMAIN scenarios[RecommendedKeys[i]]
             THEN JsString(scenarios[RecommendedKeys[i]].scenarioName)
             ELSE JsUndefined,
           netPayout |-> ResultOf(scenarios[RecommendedKeys[i]], "netPrivatePayout"),
           effectiveRate |->
             ResultOf(scenarios[RecommendedKeys[i]], "effectiveTaxRate")] >>
         \o ResultsFrom(scenarios, i + 1)
  ELSE ResultsFrom(scenarios, i + 1)

RecommendationsAlternative(best, alt) ==
  [scenario |-> alt.name,
   netPayout |-> alt.netPayout,
   difference |-> JsSub(best.netPayout, alt.netPayout)]

RecommendationsRecommended(profit, allResults) ==
  IF allResults = << >>
  THEN [ok |-> TRUE, primary |-> JsNull, alternatives |-> << >>]
  ELSE IF Nullish(profit)
  THEN CannotRead(profit, "toLocaleString")
  ELSE [ok |-> TRUE,
        primary |->
          [scenario |-> allResults[1].name,
           netPayout |-> allResults[1].netPayout,
           effectiveRate |-> allResults[1].effectiveRate],
        alternatives |->
          [i \in 1 .. (IF Len(allResults) > 3 THEN 2 ELSE Len(allResults) - 1) |->
             RecommendationsAlternative(allResults[1], allResults[i + 1])]]

\* generateRecommendations(scenarios, profit, zone): the primary
\* recommendation and the alternatives; the reasons, considerations and
\* tradeoffs are fixed texts. generateReasonForRecommendation builds
\* the reasons of all four keys, two of which call profit.toLocaleString
generateRecommendations(scenarios, profit, zone) ==
  RecommendationsRecommended(profit, SortRows(ResultsFrom(scenarios, 1)))

\* ------------------------------------------------------------------------
\* The endpoints (server.js)
\* ------------------------------------------------------------------------

\* A reply is the status and the object the handler hands to res.json.

\* res.status(400).json({ success: false, errors })
BadRequest(errors) == [status |-> 400, success |-> FALSE, errors |-> errors]

\* res.status(500).json({ success: false, errors: [message] })
ServerError(message) == [status |-> 500, success |-> FALSE, errors |-> <<message>>]

\* res.json({ success: true, data })
Ok(data) == [status |-> 200, success |-> TRUE, data |-> data]

\* try { res.json(...) } catch (error) { res.status(500)... error.message }
Answer(result) == IF result.ok THEN Ok(result) ELSE ServerError(result.error)

\* the input POST /api/calculate builds from the body
CalculateInput(body) ==
  JsObject([profit |-> Property(body, "profit"),
            employerZone |-> Property(body, "employerZone"),
            pension |->
              JsOr(Property(body, "pension"), JsObject([enabled |-> JsBoolean(FALSE)])),
            retention |->
              JsOr(Property(body, "retention"),
                   JsObject([enabled |-> JsBoolean(FALSE), percentage |-> JsNumber(0)])),
            shareCostBasis |-> JsOr(Property(body, "shareCostBasis"), JsNumber(0)),
            withdrawalStrategy |->
              JsOr(Property(body, "withdrawalStrategy"),
                   JsObject([type |-> JsString("combination"),
                             salaryRatio |-> JsNumber(50)]))])

\* !profit || !employerZone
SalaryFieldsMissing(body) ==
  Falsy(Property(body, "profit")) \/ Falsy(Property(body, "employerZone"))

\* !profit || !employerZone || salaryRatio === undefined
CombinationFieldsMissing(body) ==
  SalaryFieldsMissing(body) \/ Property(body, "salaryRatio").t = "undefined"

\* POST /api/calculate/salary
SalaryReply(body) ==
  IF SalaryFieldsMissing(body)
  THEN BadRequest(<<"Profit and employer zone are required">>)
  ELSE Answer(calculateSalaryScenario(
                Property(body, "profit"), Property(body, "employerZone"),
                Pick(body, {"includePension", "pensionRate", "retentionPercentage"})))

\* POST /api/calculate/dividend
DividendReply(body) ==
  IF Falsy(Property(body, "profit"))
  THEN BadRequest(<<"Profit is required">>)
  ELSE Answer(calculateDividendScenario(
                Property(body, "profit"),
                Pick(body, {"retentionPercentage", "shareCostBasis"})))

\* POST /api/calculate/combination
CombinationReply(body) ==
  IF CombinationFieldsMissing(body)
  THEN BadRequest(<<"Profit, employer zone, and salary ratio are required">>)
  ELSE Answer(calculateCombinationScenario(
                Property(body, "profit"), Property(body, "employerZone"),
                Property(body, "salaryRatio"),
                JsOr(Property(body, "options"), EmptyObject)))

\* GET /api/breakpoints/:zone
BreakpointsReply(zone) == Answer(calculateBreakpoints(zone))

\* ------------------------------------------------------------------------
\* State
\* ------------------------------------------------------------------------

VARIABLES
  givenProfit,        \* the profit (or budget) the calls of this run are made with
  givenZone,          \* the employer zone they are made with
  givenOptions,       \* their options object
  salaryResult,       \* what calculateSalaryScenario returned or threw
  dividendResult,     \* what calculateDividendScenario returned or threw
  givenRatio,         \* the ratio calculateCombinationScenario was called with
  combinationResult,  \* what calculateCombinationScenario returned or threw
  maxGrossResult,     \* what calculateMaxGrossSalary returned or threw
  breakpointsResult,  \* what calculateBreakpoints returned
  pc,                 \* where findOptimalRatio stands
  search,             \* the loop variables of findOptimalRatio
  iterations,         \* passes of its loop made so far
  optimizeResult,     \* what findOptimalRatio returned or threw
  rawInput,           \* the input generateAllScenarios is called with
  validation,         \* what validateCalculationInput returned to it
  at,                 \* where generateAllScenarios stands
  calls,              \* the calculator calls it has made, in order
  genScenarios,       \* its scenarios object
  response,           \* what it returned
  givenSalary,        \* the gross salary the salary taxes are called with
  bracketResult,      \* what calculateBracketTax returned
  deductionResult,    \* what calculateMinstefradrag and calculateIncomeTax returned
  fieldValue,         \* the value the field validators are called with
  fieldResults,       \* what each of them returned
  givenSettings,      \* the settings the settings validators are called with
  settingsResults,    \* what each of them returned
  tableScenarios,     \* the scenarios generateComparisonTable is called with
  comparisonTable,    \* what it returned
  request,            \* the request an endpoint of the server is serving
  reply               \* the status and body it answered with

inputVars == <<givenProfit, givenZone, givenOptions>>

calcVars == <<salaryResult, dividendResult, givenRatio, combinationResult>>

leafVars == <<maxGrossResult, breakpointsResult>>

optVars == <<pc, search, iterations, optimizeResult>>

genVars == <<rawInput, validation, at, calls, genScenarios, response>>

tableVars == <<tableScenarios, comparisonTable>>

unitVars == <<givenSalary, bracketResult, deductionResult, fieldValue, fieldResults,
              givenSettings, settingsResults, tableScenarios, comparisonTable>>

apiVars == <<request, reply>>

vars == <<givenProfit, givenZone, givenOptions, salaryResult, dividendResult,
          givenRatio, combinationResult, maxGrossResult, breakpointsResult, pc,
          search, iterations, optimizeResult, rawInput, validation, at, calls,
          genScenarios, response, givenSalary, bracketResult, deductionResult,
          fieldValue, fieldResults, givenSettings, settingsResults, tableScenarios,
          comparisonTable, request, reply>>

\* a call that has not been made
NotRun == [ok |-> FALSE, error |-> "not run"]

Ran(result) == result # NotRun

\* validateCalculationInput has not been called
NotValidated ==
  [ok |-> TRUE, isValid |-> FALSE, errors |-> << >>, warnings |-> << >>,
   sanitizedInput |-> JsUndefined]

\* const scenarios = {}
NoScenarios == [key \in {} |-> NotRun]

\* no calculator has been called with a profit, a zone and options
NoInput ==
  /\ givenProfit = JsUndefined
  /\ givenZone = JsUndefined
  /\ givenOptions = JsUndefined

ScenariosNotRun ==
  /\ salaryResult = NotRun
  /\ dividendResult = NotRun
  /\ givenRatio = JsUndefined
  /\ combinationResult = NotRun

LeavesNotRun ==
  /\ maxGrossResult = NotRun
  /\ breakpointsResult = NotRun

\* findOptimalRatio has not been called
OptimizerNotCalled ==
  /\ pc = "idle"
  /\ search = SearchStart
  /\ iterations = 0
  /\ optimizeResult = NotRun

\* generateAllScenarios has not been called
GenNotCalled ==
  /\ rawInput = JsUndefined
  /\ validation = NotValidated
  /\ at = "idle"
  /\ calls = << >>
  /\ genScenarios = NoScenarios
  /\ response = NotRun

\* generateComparisonTable has not been called
TableNotBuilt ==
  /\ tableScenarios = NoScenarios
  /\ comparisonTable = NotRun

\* no function has been called on its own
UnitNotRun ==
  /\ givenSalary = JsUndefined
  /\ bracketResult = NotRun
  /\ deductionResult = NotRun
  /\ fieldValue = JsUndefined
  /\ fieldResults = NotRun
  /\ givenSettings = JsUndefined
  /\ settingsResults = NotRun
  /\ TableNotBuilt

\* no request has reached the server
NoRequest == [endpoint |-> "none"]

NoReply == [status |-> 0]

ApiNotCalled ==
  /\ request = NoRequest
  /\ reply = NoReply

\* ------------------------------------------------------------------------
\* Inputs
\* ------------------------------------------------------------------------

ProfitStep == 450000

NProfits == 4

SmallProfit == 50000

\* profits from 0 to about two million, two small ones whose gross salary
\* stays under the employee-contribution threshold, and the largest profit
\* the validator lets through
Profits ==
  {JsNumber(k * ProfitStep) : k \in 0 .. NProfits}
    \cup {JsNumber(1), JsNumber(SmallProfit), VALIDATION_LIMITS.MAX_PROFIT}

\* every zone of the rate table and one that is not in it
Zones == {JsString(z) : z \in ZoneIds \cup {"6"}}

RetentionStep == 5

\* retention fractions 0, 0.5 and 1
Retentions == {JsNumber(0), JsFraction(RetentionStep, 10), JsNumber(1)}

PensionChoices ==
  {[includePension |-> JsBoolean(FALSE), pensionRate |-> OTP_MIN_RATE],
   [includePension |-> JsBoolean(TRUE), pensionRate |-> OTP_MIN_RATE],
   [includePension |-> JsBoolean(TRUE), pensionRate |-> OTP_MAX_RATE]}

NoPension == [includePension |-> JsBoolean(FALSE), pensionRate |-> OTP_MIN_RATE]

CostBasis == 2000000

MidRatio == 37

\* salary ratios inside [0,100], on its ends and outside it, and the number
\* that is neither below 0 nor above 100 nor inside
Ratios ==
  {JsNumber(-1), JsNumber(0), JsNumber(MidRatio), JsNumber(50), JsNumber(100),
   JsNumber(101), NaN}

\* { includePension, pensionRate, retentionPercentage, shareCostBasis }
OptionsOf(pension, retention, costBasis) ==
  JsObject([includePension |-> pension.includePension,
            pensionRate |-> pension.pensionRate,
            retentionPercentage |-> retention,
            shareCostBasis |-> costBasis])

\* the same options with a search step
WithStep(options, step) ==
  JsObject([key \in DOMAIN options.fields \cup {"searchStep"} |->
              IF key = "searchStep" THEN step ELSE options.fields[key]])

\* every pension choice with every retention, and every retention with a
\* share cost basis
ScenarioInputs ==
  {OptionsOf(p, r, JsNumber(0)) : p \in PensionChoices, r \in Retentions}
    \cup {OptionsOf(NoPension, r, JsNumber(CostBasis)) : r \in Retentions}

\* ------------------------------------------------------------------------
\* The three scenario calculators called in turn with one profit, zone and
\* options
\* ------------------------------------------------------------------------

InitCalc ==
  /\ givenProfit \in Profits
  /\ givenZone \in Zones
  /\ givenOptions \in ScenarioInputs
  /\ ScenariosNotRun
  /\ LeavesNotRun
  /\ OptimizerNotCalled
  /\ GenNotCalled
  /\ UnitNotRun
  /\ ApiNotCalled

RunSalaryScenario ==
  /\ ~Ran(salaryResult)
  /\ salaryResult' = calculateSalaryScenario(givenProfit, givenZone, givenOptions)
  /\ UNCHANGED <<unitVars, apiVars, inputVars, dividendResult, givenRatio,
                 combinationResult, leafVars, optVars, genVars>>

RunDividendScenario ==
  /\ Ran(salaryResult)
  /\ ~Ran(dividendResult)
  /\ dividendResult' = calculateDividendScenario(givenProfit, givenOptions)
  /\ UNCHANGED <<unitVars, apiVars, inputVars, salaryResult, givenRatio,
                 combinationResult, leafVars, optVars, genVars>>

RunCombinationScenario ==
  /\ Ran(dividendResult)
  /\ ~Ran(combinationResult)
  /\ \E ratio \in Ratios :
       /\ givenRatio' = ratio
       /\ combinationResult' =
            calculateCombinationScenario(givenProfit, givenZone, ratio, givenOptions)
  /\ UNCHANGED <<unitVars, apiVars, inputVars, salaryResult, dividendResult, leafVars,
                 optVars, genVars>>

NextCalc == RunSalaryScenario \/ RunDividendScenario \/ RunCombinationScenario

SpecCalc == InitCalc /\ [][NextCalc]_vars

\* ------------------------------------------------------------------------
\* The same calculators called with the inputs of the worked example and
\* with inputs around the threshold of the employee contribution
\* ------------------------------------------------------------------------

\* a profit whose gross salary is above the threshold of the employee
\* contribution in the zone with rate 0% and under it in other zones
CliffProfit == 70000

\* the profit of the worked example
WorkedProfit == 1000000

\* the share cost basis of the worked example
WorkedCostBasis == 30000

ExampleProfits ==
  {JsNumber(1), JsNumber(SmallProfit), JsNumber(CliffProfit), JsNumber(WorkedProfit),
   JsNumber(NProfits * ProfitStep)}

\* the retention fractions of Retentions and a retention of five percent
ExampleRetentions == Retentions \cup {JsFraction(1, 20)}

ExampleInputs ==
  {OptionsOf(NoPension, r, c) :
     r \in ExampleRetentions, c \in {JsNumber(0), JsNumber(WorkedCostBasis)}}

InitExample ==
  /\ givenProfit \in ExampleProfits
  /\ givenZone \in Zones
  /\ givenOptions \in ExampleInputs
  /\ ScenariosNotRun
  /\ LeavesNotRun
  /\ OptimizerNotCalled
  /\ GenNotCalled
  /\ UnitNotRun
  /\ ApiNotCalled

SpecExample == InitExample /\ [][NextCalc]_vars

\* ------------------------------------------------------------------------
\* calculateCombinationScenario called on its own
\* ------------------------------------------------------------------------

CombinationProfits == {JsNumber(k * ProfitStep) : k \in 0 .. NProfits}

InitCombination ==
  /\ givenProfit \in CombinationProfits
  /\ givenZone \in {JsString("1"), JsString("4a"), JsString("5")}
  /\ givenOptions \in ScenarioInputs
  /\ salaryResult = Thrown("not called")
  /\ dividendResult = Thrown("not called")
  /\ givenRatio = JsUndefined
  /\ combinationResult = NotRun
  /\ LeavesNotRun
  /\ OptimizerNotCalled
  /\ GenNotCalled
  /\ UnitNotRun
  /\ ApiNotCalled

SpecCombination == InitCombination /\ [][RunCombinationScenario]_vars

\* ------------------------------------------------------------------------
\* The operations that take a zone, called with one zone
\* ------------------------------------------------------------------------

\* budgets that are whole and budgets that end on a half
Budgets == Profits \cup {JsFraction(1, 2), JsFraction(2 * ProfitStep + 1, 2)}

LeafInputs == {OptionsOf(p, JsNumber(0), JsNumber(0)) : p \in PensionChoices}

\* the zones, and a zone that names a member every object inherits
LeafZones == Zones \cup {JsString("toString")}

InitLeaf ==
  /\ givenProfit \in Budgets
  /\ givenZone \in LeafZones
  /\ givenOptions \in LeafInputs
  /\ ScenariosNotRun
  /\ LeavesNotRun
  /\ OptimizerNotCalled
  /\ GenNotCalled
  /\ UnitNotRun
  /\ ApiNotCalled

RunMaxGrossSalary ==
  /\ ~Ran(maxGrossResult)
  /\ maxGrossResult' =
       calculateMaxGrossSalary(givenProfit, givenZone,
                               Property(givenOptions, "includePension"),
                               Property(givenOptions, "pensionRate"))
  /\ UNCHANGED <<unitVars, apiVars, inputVars, calcVars, breakpointsResult, optVars,
                 genVars>>

RunBreakpoints ==
  /\ ~Ran(breakpointsResult)
  /\ breakpointsResult' = calculateBreakpoints(givenZone)
  /\ UNCHANGED <<unitVars, apiVars, inputVars, calcVars, maxGrossResult, optVars,
                 genVars>>

NextLeaf == RunMaxGrossSalary \/ RunBreakpoints

SpecLeaf == InitLeaf /\ [][NextLeaf]_vars

\* ------------------------------------------------------------------------
\* findOptimalRatio, one pass of its loop at a time
\* ------------------------------------------------------------------------

OptProfitStep == 100000

NOptProfits == 3

TinyProfit == 1

\* profits from 0 to about a million, and one so small that many ratios pay
\* the same
OptProfits ==
  {JsNumber(k * k * OptProfitStep) : k \in 0 .. NOptProfits} \cup {JsNumber(TinyProfit)}

OptZones == {JsString("1"), JsString("5"), JsString("6")}

OddStep == 3

\* steps that leave out some baseline ratio, steps that do not advance the
\* ratio, and a step that is not a number
CoarseSteps ==
  {JsNumber(-1), JsNumber(OddStep), JsNumber(50), JsString("50"), NaN}

\* every profit and zone with the coarse steps, with and without retaining
\* everything; the default step of 1 for every profit in two zones; a step
\* of 0 once
OptInputs ==
  {[profit |-> p, zone |-> z,
    options |-> WithStep(OptionsOf(NoPension, r, JsNumber(0)), s)] :
     p \in OptProfits, z \in OptZones, r \in {JsNumber(0), JsNumber(1)},
     s \in CoarseSteps}
    \cup {[profit |-> p, zone |-> z,
           options |-> OptionsOf(NoPension, JsNumber(0), JsNumber(0))] :
            p \in OptProfits, z \in {JsString("5"), JsString("1")}}
    \cup {[profit |-> JsNumber(OptProfitStep), zone |-> JsString("1"),
           options |-> WithStep(OptionsOf(NoPension, JsNumber(0), JsNumber(0)),
                                JsNumber(0))],
          [profit |-> JsNumber(OptProfitStep), zone |-> JsString("1"),
           options |-> JsUndefined],
          [profit |-> JsNumber(OptProfitStep), zone |-> JsString("1"),
           options |-> JsNull]}

\* passes the model follows of a loop whose ratio does not rise above 0
MaxIterations == 105

InitOpt ==
  /\ \E input \in OptInputs :
       /\ givenProfit = input.profit
       /\ givenZone = input.zone
       /\ givenOptions = input.options
  /\ ScenariosNotRun
  /\ LeavesNotRun
  /\ pc = "called"
  /\ search = SearchStart
  /\ iterations = 0
  /\ optimizeResult = NotRun
  /\ GenNotCalled
  /\ UnitNotRun
  /\ ApiNotCalled

\* findOptimalRatio(profit, zone, options = {}) binds its parameters and
\* destructures the options; options that are null cannot be destructured
SearchEnter ==
  /\ pc = "called"
  /\ IF givenOptions.t = "null"
     THEN /\ optimizeResult' = CannotDestructure("searchStep")
          /\ pc' = "threw"
          /\ UNCHANGED givenOptions
     ELSE /\ givenOptions' = DefaultTo(givenOptions, EmptyObject)
          /\ pc' = "search"
          /\ UNCHANGED optimizeResult
  /\ UNCHANGED <<unitVars, apiVars, givenProfit, givenZone, calcVars, leafVars, search,
                 iterations, genVars>>

\* for (ratio = 0; ratio <= 100; ratio += searchStep) { try ... catch }: a
\* pass is made whenever the loop condition holds. A loop whose ratio has
\* risen above 0 is followed to its end; one whose step leaves the ratio at
\* or below 0 has no end and is followed for MaxIterations passes
SearchPass ==
  /\ pc = "search"
  /\ SearchContinues(search)
  /\ SearchRises(search) \/ iterations < MaxIterations
  /\ search' = SearchIteration(givenProfit, givenZone, givenOptions, search)
  /\ iterations' = iterations + 1
  /\ UNCHANGED <<unitVars, apiVars, inputVars, calcVars, leafVars, pc, optimizeResult,
                 genVars>>

\* the loop condition fails: the rest of findOptimalRatio runs and returns,
\* or throws what one of its four scenario calls throws
SearchReturn ==
  /\ pc = "search"
  /\ ~SearchContinues(search)
  /\ optimizeResult' = SearchFinish(givenProfit, givenZone, givenOptions, search)
  /\ pc' = IF optimizeResult'.ok THEN "returned" ELSE "threw"
  /\ UNCHANGED <<unitVars, apiVars, inputVars, calcVars, leafVars, search, iterations,
                 genVars>>

NextOpt == SearchEnter \/ SearchPass \/ SearchReturn

SpecOpt == InitOpt /\ [][NextOpt]_vars

\* the function is a sequential program: a step that can be made is made
FairSpecOpt == SpecOpt /\ WF_vars(NextOpt)

\* ------------------------------------------------------------------------
\* generateAllScenarios, one statement at a time
\* ------------------------------------------------------------------------

GenProfit == 600000

\* a record of the properties that are present
Present(fields) ==
  JsObject([key \in {k \in DOMAIN fields : fields[k] # JsUndefined} |-> fields[key]])

\* inputs with one field wrong, or several
WrongProfits == {JsUndefined, JsString("abc"), JsNumber(-1)}

WrongZones == {JsUndefined, JsString("6"), JsString("1A")}

WrongStrategies ==
  {JsUndefined, JsString("salary"), JsObject([type |-> JsString("bonus")]),
   JsObject([type |-> JsString("combination"), salaryRatio |-> JsNumber(101)])}

WrongPensions ==
  {EmptyObject,
   JsObject([enabled |-> JsBoolean(TRUE), rate |-> JsNumber(8)]),
   JsObject([enabled |-> JsBoolean(TRUE), rate |-> JsFraction(7, 100)])}

WrongRetentions ==
  {JsObject([enabled |-> JsBoolean(TRUE), percentage |-> JsNumber(150)]),
   JsObject([enabled |-> JsBoolean(TRUE), percentage |-> JsString("abc")])}

WrongCostBases == {JsNumber(-5), JsString("abc")}

RightProfits == {JsNumber(0), JsNumber(GenProfit), JsString("1e6")}

RightZones == {JsString("1"), JsString("5")}

RightStrategies ==
  {JsObject([type |-> JsString("salary")]),
   JsObject([type |-> JsString("combination"), salaryRatio |-> JsString("60")])}

RightPensions ==
  {JsUndefined, JsObject([enabled |-> JsBoolean(TRUE), rate |-> JsNumber(5)])}

RightRetentions ==
  {JsUndefined,
   JsObject([enabled |-> JsBoolean(TRUE), percentage |-> JsNumber(10 * RetentionStep)])}

RightCostBases == {JsUndefined, JsNumber(CostBasis)}

RawInputOf(profit, zone, strategy, pension, retention, costBasis) ==
  Present([profit |-> profit, employerZone |-> zone, withdrawalStrategy |-> strategy,
           pension |-> pension, retention |-> retention, shareCostBasis |-> costBasis])

\* the right inputs: every profit in every zone, and one profit with every
\* pension, retention and share cost basis
RightInputs ==
  {RawInputOf(p, z, JsObject([type |-> JsString("salary")]), JsUndefined, JsUndefined,
              JsUndefined) : p \in RightProfits, z \in RightZones}
    \cup {RawInputOf(JsNumber(GenProfit), JsString("1"), s, p, r, c) :
            s \in RightStrategies, p \in RightPensions, r \in RightRetentions,
            c \in RightCostBases}

\* inputs whose fields are each right or wrong, at least one of them wrong
WrongInputs ==
  {RawInputOf(p, z, s, n, r, c) :
     p \in WrongProfits \cup {JsNumber(GenProfit)},
     z \in WrongZones \cup {JsString("1")},
     s \in WrongStrategies \cup {JsObject([type |-> JsString("salary")])},
     n \in WrongPensions \cup {JsUndefined},
     r \in WrongRetentions \cup {JsUndefined},
     c \in WrongCostBases \cup {JsUndefined}}
    \ RightInputs

RawInputs == RightInputs \cup WrongInputs

InitGen ==
  /\ rawInput \in RawInputs
  /\ validation = NotValidated
  /\ at = "start"
  /\ calls = << >>
  /\ genScenarios = NoScenarios
  /\ response = NotRun
  /\ NoInput
  /\ ScenariosNotRun
  /\ LeavesNotRun
  /\ OptimizerNotCalled
  /\ UnitNotRun
  /\ ApiNotCalled

\* const validation = validateCalculationInput(input)
GenValidate ==
  /\ at = "start"
  /\ validation' = validateCalculationInput(rawInput)
  /\ at' = "validated"
  /\ UNCHANGED <<unitVars, apiVars, inputVars, calcVars, leafVars, optVars, rawInput,
                 calls, genScenarios, response>>

\* if (!validation.isValid) return { success: false, ... }
GenReject ==
  /\ at = "validated"
  /\ ~validation.isValid
  /\ response' = [ok |-> TRUE,
                  success |-> FALSE,
                  errors |-> validation.errors,
                  scenarios |-> JsNull]
  /\ at' = "returned"
  /\ UNCHANGED <<unitVars, apiVars, inputVars, calcVars, leafVars, optVars, rawInput,
                 validation, calls, genScenarios>>

\* a call of a calculator: the key its result is stored under, the function
\* and its arguments
Call(key, fn, profit, zone, ratio, options) ==
  [key |-> key, fn |-> fn, profit |-> profit, zone |-> zone, ratio |-> ratio,
   options |-> options]

\* what the call returns or throws
Invoke(call) ==
  CASE call.fn = "calculateSalaryScenario" ->
         calculateSalaryScenario(call.profit, call.zone, call.options)
    [] call.fn = "calculateDividendScenario" ->
         calculateDividendScenario(call.profit, call.options)
    [] call.fn = "calculateCombinationScenario" ->
         calculateCombinationScenario(call.profit, call.zone, call.ratio, call.options)

\* one try block: the call is made, and what it returns or the message it
\* throws is stored under its key
GenTry(call, next) ==
  /\ calls' = Append(calls, call)
  /\ genScenarios' = (call.key :> Invoke(call)) @@ genScenarios
  /\ at' = next
  /\ UNCHANGED <<unitVars, apiVars, inputVars, calcVars, leafVars, optVars, rawInput,
                 validation, response>>

GenAllSalary ==
  /\ at = "validated"
  /\ validation.isValid
  /\ GenTry(Call("allSalary", "calculateSalaryScenario",
                 Property(validation.sanitizedInput, "profit"),
                 Property(validation.sanitizedInput, "employerZone"),
                 JsUndefined,
                 Pick(GenOptions(validation.sanitizedInput),
                      {"includePension", "pensionRate", "retentionPercentage"})),
            "allDividend")

GenAllDividend ==
  /\ at = "allDividend"
  /\ GenTry(Call("allDividend", "calculateDividendScenario",
                 Property(validation.sanitizedInput, "profit"),
                 JsUndefined, JsUndefined,
                 Pick(GenOptions(validation.sanitizedInput),
                      {"retentionPercentage", "shareCostBasis"})),
            "split5050")

GenSplit5050 ==
  /\ at = "split5050"
  /\ GenTry(Call("split5050", "calculateCombinationScenario",
                 Property(validation.sanitizedInput, "profit"),
                 Property(validation.sanitizedInput, "employerZone"),
                 JsNumber(50),
                 GenOptions(validation.sanitizedInput)),
            "optimized")

\* findOptimalRatio(profit, employerZone, options) is called
GenOptimized ==
  /\ at = "optimized"
  /\ calls' = Append(calls,
                     Call("optimized", "findOptimalRatio",
                          Property(validation.sanitizedInput, "profit"),
                          Property(validation.sanitizedInput, "employerZone"),
                          JsUndefined,
                          GenOptions(validation.sanitizedInput)))
  /\ givenProfit' = Property(validation.sanitizedInput, "profit")
  /\ givenZone' = Property(validation.sanitizedInput, "employerZone")
  /\ givenOptions' = GenOptions(validation.sanitizedInput)
  /\ pc' = "called"
  /\ search' = SearchStart
  /\ iterations' = 0
  /\ at' = "optimizing"
  /\ UNCHANGED <<unitVars, apiVars, calcVars, leafVars, optimizeResult, rawInput,
                 validation, genScenarios, response>>

\* findOptimalRatio has returned or thrown: the try block stores the optimal
\* scenario and the optimization details, the catch block the message
GenOptimizedDone ==
  /\ at = "optimizing"
  /\ pc \in {"returned", "threw"}
  /\ genScenarios' =
       IF optimizeResult.ok
       THEN ("optimized" :> optimizeResult.optimalScenario)
            @@ ("optimizationDetails" :> OptimizationDetails(optimizeResult))
            @@ genScenarios
       ELSE ("optimized" :> optimizeResult) @@ genScenarios
  /\ at' = "withRetention"
  /\ UNCHANGED <<unitVars, apiVars, inputVars, calcVars, leafVars, optVars, rawInput,
                 validation, calls, response>>

\* if (options.retentionPercentage === 0) { try ... catch }
GenWithRetention ==
  /\ at = "withRetention"
  /\ IF RetentionNotApplied(GenOptions(validation.sanitizedInput))
     THEN GenTry(Call("withRetention", "calculateCombinationScenario",
                      Property(validation.sanitizedInput, "profit"),
                      Property(validation.sanitizedInput, "employerZone"),
                      RetentionRatio(genScenarios),
                      RetentionOptions(GenOptions(validation.sanitizedInput))),
                 "return")
     ELSE /\ at' = "return"
          /\ UNCHANGED <<unitVars, apiVars, inputVars, calcVars, leafVars, optVars,
                         rawInput, validation, calls, genScenarios, response>>

\* return { success: true, ... }, or what generateRecommendations throws
GenReturned(recommendations) ==
  IF ~recommendations.ok THEN recommendations
  ELSE [ok |-> TRUE,
        success |-> TRUE,
        input |-> validation.sanitizedInput,
        warnings |-> validation.warnings,
        scenarios |-> genScenarios,
        comparison |-> generateComparisonTable(genScenarios),
        recommendations |-> recommendations]

GenReturn ==
  /\ at = "return"
  /\ response' =
       GenReturned(generateRecommendations(
                     genScenarios,
                     Property(validation.sanitizedInput, "profit"),
                     Property(validation.sanitizedInput, "employerZone")))
  /\ at' = "returned"
  /\ UNCHANGED <<unitVars, apiVars, inputVars, calcVars, leafVars, optVars, rawInput,
                 validation, calls, genScenarios>>

NextGen ==
  \/ GenValidate
  \/ GenReject
  \/ GenAllSalary
  \/ GenAllDividend
  \/ GenSplit5050
  \/ GenOptimized
  \/ SearchEnter
  \/ SearchPass
  \/ SearchReturn
  \/ GenOptimizedDone
  \/ GenWithRetention
  \/ GenReturn

SpecGen == InitGen /\ [][NextGen]_vars

\* ------------------------------------------------------------------------
\* The endpoints of the server (server.js), one request at a time
\* ------------------------------------------------------------------------

ApiProfit == 600000

\* bodies of POST /api/calculate: a profit and a zone that are missing, wrong
\* or right, a strategy and a retention that are absent, a value that counts
\* as false, wrong or right, and a pension that is absent or false
CalculateBodies ==
  {Present([profit |-> p, employerZone |-> z, retention |-> r,
            withdrawalStrategy |-> s, pension |-> n]) :
     p \in {JsUndefined, JsNumber(-1), JsString("abc"), JsNumber(ApiProfit)},
     z \in {JsString("1"), JsString("6")},
     r \in {JsUndefined, JsNumber(0),
            JsObject([enabled |-> JsBoolean(TRUE), percentage |-> JsNumber(150)])},
     s \in {JsUndefined, JsString(""),
            JsObject([type |-> JsString("combination"), salaryRatio |-> JsNumber(101)])},
     n \in {JsUndefined, JsBoolean(FALSE)}}

\* bodies of the endpoints that call one calculator: a profit that is a
\* number or a text, zero, negative or positive, a zone that is empty, known
\* or unknown, a ratio that is absent, inside [0,100], outside it or not a
\* number, and options that are absent or given
CalculatorBodies ==
  {Present([profit |-> p, employerZone |-> z, salaryRatio |-> JsNumber(50)]) :
     p \in {JsNumber(0), JsNumber(-1), JsNumber(ApiProfit), JsString("600000"),
            JsString("abc")},
     z \in {JsUndefined, JsString(""), JsString("1"), JsString("5"), JsString("6")}}
    \cup {Present([profit |-> JsNumber(ApiProfit), employerZone |-> JsString("1"),
                   salaryRatio |-> r, options |-> o, includePension |-> n,
                   pensionRate |-> JsFraction(5, 100), retentionPercentage |-> t,
                   shareCostBasis |-> JsNumber(CostBasis)]) :
            r \in {JsUndefined, JsNull, JsNumber(-1), JsNumber(0), JsNumber(101),
                   JsString("50")},
            o \in {JsUndefined, JsNull,
                   JsObject([retentionPercentage |-> JsFraction(3, 10),
                             searchStep |-> JsNumber(50)])},
            n \in {JsUndefined, JsBoolean(TRUE)},
            t \in {JsUndefined, JsFraction(1, 2), JsNumber(150)}}

\* bodies of POST /api/optimize: every profit and zone, a search that takes
\* the default step, a coarse step or a step that does not advance the
\* ratio, and options that are null
OptimizeBodies ==
  {Present([profit |-> p, employerZone |-> z]) :
     p \in {JsNumber(0), JsNumber(-1), JsNumber(ApiProfit), JsString("600000"),
            JsString("abc")},
     z \in {JsUndefined, JsString(""), JsString("1"), JsString("5"), JsString("6")}}
    \cup {Present([profit |-> JsNumber(ApiProfit), employerZone |-> JsString("5"),
                   options |-> o]) :
            o \in {JsNull, JsObject([searchStep |-> JsNumber(0)]),
                   JsObject([retentionPercentage |-> JsFraction(3, 10),
                             searchStep |-> JsNumber(50)])}}

Requests ==
  {[endpoint |-> "calculate", body |-> b] : b \in CalculateBodies}
    \cup {[endpoint |-> e, body |-> b] :
            e \in {"salary", "dividend", "combination"}, b \in CalculatorBodies}
    \cup {[endpoint |-> "optimize", body |-> b] : b \in OptimizeBodies}
    \cup {[endpoint |-> "breakpoints", zone |-> z] : z \in LeafZones}

InitApi ==
  /\ request \in Requests
  /\ reply = NoReply
  /\ NoInput
  /\ ScenariosNotRun
  /\ LeavesNotRun
  /\ OptimizerNotCalled
  /\ GenNotCalled
  /\ UnitNotRun

\* POST /api/calculate, up to its call of generateAllScenarios
ApiCalculate ==
  /\ request.endpoint = "calculate"
  /\ at = "idle"
  /\ rawInput' = CalculateInput(request.body)
  /\ at' = "start"
  /\ UNCHANGED <<unitVars, apiVars, inputVars, calcVars, leafVars, optVars,
                 validation, calls, genScenarios, response>>

\* POST /api/calculate, after generateAllScenarios has returned or thrown
ApiCalculateReply ==
  /\ request.endpoint = "calculate"
  /\ at = "returned"
  /\ reply = NoReply
  /\ reply' = IF ~response.ok THEN ServerError("Server error: " \o response.error)
              ELSE IF ~response.success THEN BadRequest(response.errors)
              ELSE Ok(response)
  /\ UNCHANGED <<unitVars, request, inputVars, calcVars, leafVars, optVars, genVars>>

\* POST /api/calculate/salary
ApiSalary ==
  /\ request.endpoint = "salary"
  /\ reply = NoReply
  /\ reply' = SalaryReply(request.body)
  /\ salaryResult' = IF reply'.status = 400 THEN salaryResult
                     ELSE IF reply'.status = 200 THEN reply'.data
                     ELSE Thrown(reply'.errors[1])
  /\ UNCHANGED <<unitVars, request, inputVars, dividendResult, givenRatio,
                 combinationResult, leafVars, optVars, genVars>>

\* POST /api/calculate/dividend
ApiDividend ==
  /\ request.endpoint = "dividend"
  /\ reply = NoReply
  /\ reply' = DividendReply(request.body)
  /\ dividendResult' = IF reply'.status = 400 THEN dividendResult
                       ELSE IF reply'.status = 200 THEN reply'.data
                       ELSE Thrown(reply'.errors[1])
  /\ UNCHANGED <<unitVars, request, inputVars, salaryResult, givenRatio,
                 combinationResult, leafVars, optVars, genVars>>

\* POST /api/calculate/combination
ApiCombination ==
  /\ request.endpoint = "combination"
  /\ reply = NoReply
  /\ reply' = CombinationReply(request.body)
  /\ givenRatio' = IF reply'.status = 400 THEN givenRatio
                   ELSE Property(request.body, "salaryRatio")
  /\ combinationResult' = IF reply'.status = 400 THEN combinationResult
                          ELSE IF reply'.status = 200 THEN reply'.data
                          ELSE Thrown(reply'.errors[1])
  /\ UNCHANGED <<unitVars, request, inputVars, salaryResult, dividendResult,
                 leafVars, optVars, genVars>>

\* POST /api/optimize, up to its call of findOptimalRatio
ApiOptimize ==
  /\ request.endpoint = "optimize"
  /\ reply = NoReply
  /\ pc = "idle"
  /\ IF SalaryFieldsMissing(request.body)
     THEN /\ reply' = BadRequest(<<"Profit and employer zone are required">>)
          /\ UNCHANGED <<inputVars, pc>>
     ELSE /\ givenProfit' = Property(request.body, "profit")
          /\ givenZone' = Property(request.body, "employerZone")
          /\ givenOptions' = JsOr(Property(request.body, "options"), EmptyObject)
          /\ pc' = "called"
          /\ UNCHANGED reply
  /\ UNCHANGED <<unitVars, request, calcVars, leafVars, search, iterations,
                 optimizeResult, genVars>>

\* POST /api/optimize, after findOptimalRatio has returned or thrown
ApiOptimizeReply ==
  /\ request.endpoint = "optimize"
  /\ reply = NoReply
  /\ pc \in {"returned", "threw"}
  /\ reply' = Answer(optimizeResult)
  /\ UNCHANGED <<unitVars, request, inputVars, calcVars, leafVars, optVars, genVars>>

\* GET /api/breakpoints/:zone
ApiBreakpoints ==
  /\ request.endpoint = "breakpoints"
  /\ reply = NoReply
  /\ reply' = BreakpointsReply(request.zone)
  /\ breakpointsResult' = reply'.data
  /\ UNCHANGED <<unitVars, request, inputVars, calcVars, maxGrossResult, optVars,
                 genVars>>

NextApi ==
  \/ ApiCalculate
  \/ GenValidate
  \/ GenReject
  \/ GenAllSalary
  \/ GenAllDividend
  \/ GenSplit5050
  \/ GenOptimized
  \/ SearchEnter
  \/ SearchPass
  \/ SearchReturn
  \/ GenOptimizedDone
  \/ GenWithRetention
  \/ GenReturn
  \/ ApiCalculateReply
  \/ ApiSalary
  \/ ApiDividend
  \/ ApiCombination
  \/ ApiOptimize
  \/ ApiOptimizeReply
  \/ ApiBreakpoints

SpecApi == InitApi /\ [][NextApi]_vars

\* ------------------------------------------------------------------------
\* The bracket tax and the field validators, each called on its own
\* ------------------------------------------------------------------------

NearThreshold == 2

GrossStep == 33331

NGross == 60

\* the gross salaries of the repository's bracket tax tests
TestedSalaries ==
  {JsNumber(200000), JsNumber(250000), JsNumber(800000), JsNumber(2000000)}

\* gross salaries from 0 to about two million, every bracket threshold and
\* the salaries next to each threshold
GrossSalaries ==
  {JsNumber(k * GrossStep) : k \in 0 .. NGross}
    \cup {DblAdd(BRACKET_TAX_2025[i].threshold, JsNumber(d)) :
            i \in 1 .. Len(BRACKET_TAX_2025), d \in -NearThreshold .. NearThreshold}
    \cup TestedSalaries \cup {JsNumber(1)}

\* the values of any type a caller can hand to a field validator
FieldValues ==
  {JsUndefined, JsNull, NaN, Infinity, JsBoolean(TRUE), JsBoolean(FALSE),
   JsString(""), JsString(" "), JsString("abc"), JsString("-5"),
   JsString("0"), JsString("50"), JsString("100"), JsString("101"),
   JsString("600000"), JsString("12.5"), JsString("1e3"), JsString("0x10"),
   JsString("  42  "), JsString("12px"),
   JsNumber(-1), JsNumber(0), JsNumber(50), JsNumber(100), JsNumber(101),
   JsFraction(201, 2), JsNumber(600000), VALIDATION_LIMITS.MAX_PROFIT,
   DblAdd(VALIDATION_LIMITS.MAX_PROFIT, JsNumber(1)),
   JsNumber(3), JsNumber(6), JsArray(<<JsNumber(5)>>), JsArray(<< >>), EmptyObject}
    \cup {JsString(z) : z \in ZoneIds \cup {"6", "1A", "4A", " 1", "invalid"}}

InitUnit ==
  /\ givenSalary \in GrossSalaries
  /\ bracketResult = NotRun
  /\ deductionResult = NotRun
  /\ fieldValue \in FieldValues
  /\ fieldResults = NotRun
  /\ givenSettings = JsUndefined
  /\ settingsResults = NotRun
  /\ TableNotBuilt
  /\ NoInput
  /\ ScenariosNotRun
  /\ LeavesNotRun
  /\ OptimizerNotCalled
  /\ GenNotCalled
  /\ ApiNotCalled

\* calculateBracketTax(grossSalary)
RunBracketTax ==
  /\ ~Ran(bracketResult)
  /\ bracketResult' = calculateBracketTax(givenSalary)
  /\ UNCHANGED <<deductionResult, givenSalary, fieldValue, fieldResults, givenSettings,
                 settingsResults, tableVars, apiVars, inputVars, calcVars, leafVars,
                 optVars, genVars>>

\* validateProfit(value), validateEmployerZone(value) and
\* validatePercentage(value, fieldName)
RunFieldValidators ==
  /\ ~Ran(fieldResults)
  /\ fieldResults' =
       [ok |-> TRUE,
        profit |-> validateProfit(fieldValue),
        zone |-> validateEmployerZone(fieldValue),
        percentage |-> validatePercentage(fieldValue, "Field")]
  /\ UNCHANGED <<deductionResult, givenSalary, bracketResult, fieldValue,
                 givenSettings, settingsResults, tableVars, apiVars, inputVars,
                 calcVars, leafVars, optVars, genVars>>

NextUnit ==
  \/ RunBracketTax
  \/ RunFieldValidators

SpecUnit == InitUnit /\ [][NextUnit]_vars

\* ------------------------------------------------------------------------
\* The employee contribution, the minimum deduction and the income tax on
\* their own
\* ------------------------------------------------------------------------

\* the gross salaries of the repository's minstefradrag tests
TestedDeductionSalaries == {JsNumber(5000), JsNumber(200000), JsNumber(500000)}

\* the gross salaries where the deduction changes regime (its minimum, the
\* salaries whose rate share is the minimum and the maximum), where the
\* taxable income starts (with the rate share and with the maximum deducted)
\* and where the employee contribution starts
KinkSalaries ==
  {MINSTEFRADRAG.minimum,
   MathRound(DblDiv(MINSTEFRADRAG.minimum, MINSTEFRADRAG.rate)),
   MathRound(DblDiv(MINSTEFRADRAG.maximum, MINSTEFRADRAG.rate)),
   MathRound(DblDiv(PERSONFRADRAG, DblSub(JsNumber(1), MINSTEFRADRAG.rate))),
   DblAdd(PERSONFRADRAG, MINSTEFRADRAG.maximum),
   SOCIAL_SECURITY_THRESHOLD}

DeductionSalaries ==
  GrossSalaries \cup TestedDeductionSalaries
    \cup {DblAdd(k, JsNumber(d)) : k \in KinkSalaries, d \in -NearThreshold .. NearThreshold}

InitDeduction ==
  /\ givenSalary \in DeductionSalaries
  /\ bracketResult = NotRun
  /\ deductionResult = NotRun
  /\ fieldValue = JsUndefined
  /\ fieldResults = NotRun
  /\ givenSettings = JsUndefined
  /\ settingsResults = NotRun
  /\ TableNotBuilt
  /\ NoInput
  /\ ScenariosNotRun
  /\ LeavesNotRun
  /\ OptimizerNotCalled
  /\ GenNotCalled
  /\ ApiNotCalled

\* calculateSocialSecurityContribution(grossSalary),
\* calculateMinstefradrag(grossSalary) and calculateIncomeTax(grossSalary)
RunIncomeTax ==
  /\ ~Ran(deductionResult)
  /\ deductionResult' =
       [ok |-> TRUE,
        contribution |-> calculateSocialSecurityContribution(givenSalary),
        minstefradrag |-> calculateMinstefradrag(givenSalary),
        incomeTax |-> calculateIncomeTax(givenSalary)]
  /\ UNCHANGED <<givenSalary, bracketResult, fieldValue, fieldResults, givenSettings,
                 settingsResults, tableVars, apiVars, inputVars, calcVars,
                 leafVars, optVars, genVars>>

SpecDeduction == InitDeduction /\ [][RunIncomeTax]_vars

\* ------------------------------------------------------------------------
\* The settings validators on their own (validation/inputValidation.js)
\* ------------------------------------------------------------------------

\* the rates and percentages a settings object carries
SettingsAmounts ==
  {JsUndefined, JsNull, JsBoolean(TRUE), JsString("abc"), JsString("5"), JsString(""),
   JsString("0.05"),
   JsNumber(-1), JsNumber(0), JsNumber(1), JsNumber(2), JsNumber(5),
   JsNumber(7), JsNumber(8), JsNumber(50), JsNumber(100), JsNumber(101),
   JsFraction(1, 100), JsFraction(2, 100), JsFraction(5, 100),
   JsFraction(7, 100), JsFraction(35, 1000), JsFraction(71, 1000),
   JsFraction(1, 2), JsFraction(5, 2), JsFraction(15, 2)}

\* pension and retention settings of a raw input: absent, null or another
\* value that counts as false, switched off, carrying no enabled flag,
\* carrying one that is not a boolean, not an object, or switched on with an
\* amount
SettingsValues ==
  {JsUndefined, JsNull, JsBoolean(FALSE), JsNumber(0), JsString(""), NaN,
   JsBoolean(TRUE), JsString("on"), JsNumber(5), EmptyObject,
   JsObject([enabled |-> JsBoolean(FALSE)]),
   JsObject([enabled |-> JsString("true"), rate |-> JsNumber(5),
             percentage |-> JsNumber(5)]),
   JsObject([rate |-> JsNumber(5), percentage |-> JsNumber(5)])}
    \cup {JsObject([enabled |-> JsBoolean(TRUE), rate |-> a, percentage |-> a]) :
            a \in SettingsAmounts}

ShareCostBases ==
  {JsUndefined, JsNull, JsString(""), JsString("abc"), JsString("600000"),
   JsNumber(-1), JsNumber(0), JsNumber(600000)}

NoSettingsResults ==
  [pension |-> NotRun, retention |-> NotRun, shareCostBasis |-> NotRun]

InitSettings ==
  /\ givenSettings \in SettingsValues
  /\ fieldValue \in ShareCostBases
  /\ settingsResults = NoSettingsResults
  /\ TableNotBuilt
  /\ givenSalary = JsUndefined
  /\ bracketResult = NotRun
  /\ deductionResult = NotRun
  /\ fieldResults = NotRun
  /\ NoInput
  /\ ScenariosNotRun
  /\ LeavesNotRun
  /\ OptimizerNotCalled
  /\ GenNotCalled
  /\ ApiNotCalled

\* validatePensionSettings(pensionSettings)
RunPensionValidator ==
  /\ ~Ran(settingsResults.pension)
  /\ settingsResults' =
       [settingsResults EXCEPT !.pension = validatePensionSettings(givenSettings)]
  /\ UNCHANGED <<deductionResult, givenSalary, bracketResult, fieldValue, fieldResults,
                 givenSettings, tableVars, apiVars, inputVars, calcVars, leafVars,
                 optVars, genVars>>

\* validateRetentionSettings(retentionSettings)
RunRetentionValidator ==
  /\ ~Ran(settingsResults.retention)
  /\ settingsResults' =
       [settingsResults EXCEPT !.retention = validateRetentionSettings(givenSettings)]
  /\ UNCHANGED <<deductionResult, givenSalary, bracketResult, fieldValue, fieldResults,
                 givenSettings, tableVars, apiVars, inputVars, calcVars, leafVars,
                 optVars, genVars>>

\* validateShareCostBasis(costBasis)
RunShareCostBasisValidator ==
  /\ ~Ran(settingsResults.shareCostBasis)
  /\ settingsResults' =
       [settingsResults EXCEPT !.shareCostBasis = validateShareCostBasis(fieldValue)]
  /\ UNCHANGED <<deductionResult, givenSalary, bracketResult, fieldValue, fieldResults,
                 givenSettings, tableVars, apiVars, inputVars, calcVars, leafVars,
                 optVars, genVars>>

NextSettings ==
  \/ RunPensionValidator
  \/ RunRetentionValidator
  \/ RunShareCostBasisValidator

SpecSettings == InitSettings /\ [][NextSettings]_vars

\* ------------------------------------------------------------------------
\* generateComparisonTable on its own (calculations/scenarioComparison.js)
\* ------------------------------------------------------------------------

PayoutStep == 100000

\* what a scenario of the table's input is: absent, an error, or a result
\* with one of three net payouts
ScenarioChoices ==
  {<<"absent", 0>>, <<"error", 0>>} \cup {<<"result", k * PayoutStep>> : k \in 0 .. 2}

\* { error: message } or a scenario with its results section
ScenarioOf(choice) ==
  IF choice[1] = "error" THEN Thrown("Unknown employer zone")
  ELSE [ok |-> TRUE,
        results |->
          [netPrivatePayout |-> JsNumber(choice[2]),
           totalTaxPaid |-> JsNumber(2 * PayoutStep - choice[2]),
           effectiveTaxRate |-> JsFraction(2 * PayoutStep - choice[2], 2 * PayoutStep),
           retainedInCompany |-> JsNumber(0)]]

ListedKeys == {ScenarioList[i].key : i \in 1 .. Len(ScenarioList)}

\* the scenarios objects of the choices
TableInputs ==
  {[key \in {k \in ListedKeys : choice[k][1] # "absent"} |-> ScenarioOf(choice[key])] :
     choice \in [ListedKeys -> ScenarioChoices]}

InitTable ==
  /\ tableScenarios \in TableInputs
  /\ comparisonTable = NotRun
  /\ givenSalary = JsUndefined
  /\ bracketResult = NotRun
  /\ deductionResult = NotRun
  /\ fieldValue = JsUndefined
  /\ fieldResults = NotRun
  /\ givenSettings = JsUndefined
  /\ settingsResults = NotRun
  /\ NoInput
  /\ ScenariosNotRun
  /\ LeavesNotRun
  /\ OptimizerNotCalled
  /\ GenNotCalled
  /\ ApiNotCalled

\* generateComparisonTable(scenarios)
BuildComparisonTable ==
  /\ ~Ran(comparisonTable)
  /\ comparisonTable' = [ok |-> TRUE] @@ generateComparisonTable(tableScenarios)
  /\ UNCHANGED <<deductionResult, givenSalary, bracketResult, fieldValue, fieldResults,
                 givenSettings, settingsResults, tableScenarios, apiVars, inputVars,
                 calcVars, leafVars, optVars, genVars>>

SpecTable == InitTable /\ [][BuildComparisonTable]_vars

\* ------------------------------------------------------------------------
\* What is claimed of the program
\* ------------------------------------------------------------------------

\* two amounts the repository's tests accept as equal within rounding
\* (toBeCloseTo(x, -2): they differ by less than 50)
RoundingTolerance == 50

\* |x|
Magnitude(x) == IF x.k # "nan" /\ x.sg < 0 THEN DblNeg(x) ELSE x

\* |a - b|
Gap(a, b) == Magnitude(DblSub(a, b))

Close(a, b) == DblLess(Gap(a, b), JsNumber(RoundingTolerance))

\* a and b differ by at most one unit
WithinOne(a, b) == DblLeq(Gap(a, b), JsNumber(1))

\* the call has been made and has returned a result
Returned(res) == Ran(res) /\ res.ok

\* the zone of the calls is one of the zones of the rate table
KnownZone == givenZone.t = "string" /\ givenZone.s \in ZoneIds

\* the profit of the calls as a number
ProfitGiven == ToNumber(givenProfit)

\* an option of the calls
OptionGiven(name) == Property(givenOptions, name)

\* the ratio of the combination is in [0,100]
RatioInRange ==
  /\ DblGeq(ToNumber(givenRatio), JsNumber(0))
  /\ DblLeq(ToNumber(givenRatio), JsNumber(100))

\* ---- C1 ----

Reconciles(res) ==
  Close(DblAdd(DblAdd(res.results.netPrivatePayout, res.results.totalTaxPaid),
               res.results.retainedInCompany),
        ProfitGiven)

\* C1: for every profit >= 0, valid zone, retention in [0,1] and pension
\* disabled or enabled at 2%-7%, the results of the salary, the dividend and
\* the combination scenario (any ratio 0..100) satisfy netPrivatePayout +
\* totalTaxPaid + retainedInCompany = profit, up to rounding.
C1_Reconciliation ==
  KnownZone =>
    /\ Returned(salaryResult) => Reconciles(salaryResult)
    /\ Returned(dividendResult) => Reconciles(dividendResult)
    /\ (Returned(combinationResult) /\ RatioInRange) =>
         Reconciles(combinationResult)

\* ---- C2 ----

\* C2: with the same options on both sides, the combination scenario at
\* salaryRatio = 100 has the net private payout of the salary scenario,
\* within rounding, small profits included.
C2_AllSalaryEqualsSalaryScenario ==
  ( /\ KnownZone
    /\ Returned(salaryResult)
    /\ Returned(combinationResult)
    /\ DblEq(ToNumber(givenRatio), JsNumber(100)) )
  => Close(combinationResult.results.netPrivatePayout,
           salaryResult.results.netPrivatePayout)

\* ---- C3 ----

\* the dividend scenario and the combination scenario at ratio 0 have both
\* returned from calls with zero share cost basis
AllDividendCompared ==
  /\ Returned(dividendResult)
  /\ Returned(combinationResult)
  /\ DblIsZero(ToNumber(givenRatio))
  /\ DblIsZero(ToNumber(OptionGiven("shareCostBasis")))

\* C3: for every profit, valid zone and retention, the combination scenario
\* at salaryRatio = 0 has the net private payout of the dividend scenario
\* called with zero share cost basis, within rounding.
C3_AllDividendEqualsDividendScenario ==
  AllDividendCompared =>
    Close(combinationResult.results.netPrivatePayout,
          dividendResult.results.netPrivatePayout)

\* both scenarios have run at ratio 0 and zero cost basis on a profit of which
\* a part is retained and a part paid out
C3_Witness ==
  /\ AllDividendCompared
  /\ DblGreater(dividendResult.results.retainedInCompany, JsNumber(0))
  /\ DblGreater(dividendResult.results.netPrivatePayout, JsNumber(0))
  /\ WithinOne(combinationResult.results.netPrivatePayout,
               dividendResult.results.netPrivatePayout)

\* ---- C4 ----

\* the payout of the scenario returned as optimal is at least the payout of
\* a baseline
BeatsBaseline(entry) ==
  DblGeq(optimizeResult.optimalScenario.results.netPrivatePayout, entry.netPayout)

\* C4: whatever the search step, the net payout findOptimalRatio returns as
\* optimal is at least the net payout of each of its baselines (ratio 0, 50
\* and 100), and the three savings are >= 0.
C4_OptimalBeatsBaselines ==
  pc = "returned" =>
    /\ BeatsBaseline(optimizeResult.comparison.allDividend)
    /\ BeatsBaseline(optimizeResult.comparison.split5050)
    /\ BeatsBaseline(optimizeResult.comparison.allSalary)
    /\ DblGeq(optimizeResult.savings.vsAllSalary, JsNumber(0))
    /\ DblGeq(optimizeResult.savings.vsAllDividend, JsNumber(0))
    /\ DblGeq(optimizeResult.savings.vsSplit5050, JsNumber(0))

\* ---- C5 ----

\* the calculator calls are gated by validation: a failed validation gives no
\* sanitized input, no call and the failure response, and a call is made only
\* after a validation that succeeded
ValidationGates ==
  /\ (at # "start" /\ ~validation.isValid) =>
       /\ validation.sanitizedInput = JsNull
       /\ calls = << >>
       /\ genScenarios = NoScenarios
       /\ at = "returned" =>
            response = [ok |-> TRUE, success |-> FALSE,
                        errors |-> validation.errors, scenarios |-> JsNull]
  /\ calls # << >> => (at # "start" /\ validation.isValid)

\* a property of the sanitized input, and a property of one of its settings
Sanitized(name) == Property(validation.sanitizedInput, name)

SanitizedSetting(name, part) == Property(Sanitized(name), part)

\* the profit and the zone of a call are the sanitized ones
SanitizedProfitAndZone(call) ==
  /\ call.profit = Sanitized("profit")
  /\ call.fn # "calculateDividendScenario" => call.zone = Sanitized("employerZone")

\* an option a call carries has the value v
Carries(call, name, v) ==
  name \in DOMAIN call.options.fields => call.options.fields[name] = v

\* C5 (as stated): calculation never starts before validation has succeeded;
\* a failed validation returns sanitizedInput = null and generateAllScenarios
\* then returns success = false, scenarios = null and calls no calculator;
\* after a successful validation the calculators receive exactly the
\* sanitized values.
C5_CalculatorsReceiveSanitized ==
  /\ ValidationGates
  /\ \A i \in 1 .. Len(calls) :
       /\ SanitizedProfitAndZone(calls[i])
       /\ Carries(calls[i], "includePension", SanitizedSetting("pension", "enabled"))
       /\ Carries(calls[i], "pensionRate", SanitizedSetting("pension", "rate"))
       /\ Carries(calls[i], "retentionPercentage",
                  SanitizedSetting("retention", "percentage"))
       /\ Carries(calls[i], "shareCostBasis", Sanitized("shareCostBasis"))

\* C5 (amended): as above, except that what the calculators receive is the
\* sanitized profit and zone, the sanitized pension flag, the sanitized
\* pension rate or 0.02 when pension is disabled, the sanitized retention
\* fraction or 0.3 in the withRetention scenario, and the sanitized share cost
\* basis or 0 when there is none.
C5_ValidationGatesCalculation ==
  /\ ValidationGates
  /\ \A i \in 1 .. Len(calls) :
       /\ SanitizedProfitAndZone(calls[i])
       /\ Carries(calls[i], "includePension", SanitizedSetting("pension", "enabled"))
       /\ Carries(calls[i], "pensionRate",
                  IF SanitizedSetting("pension", "enabled") = JsBoolean(TRUE)
                  THEN SanitizedSetting("pension", "rate")
                  ELSE JsFraction(2, 100))
       /\ Carries(calls[i], "retentionPercentage",
                  IF calls[i].key = "withRetention" THEN JsFraction(3, 10)
                  ELSE SanitizedSetting("retention", "percentage"))
       /\ calls[i].key = "withRetention" =>
            SanitizedSetting("retention", "percentage") = JsNumber(0)
       /\ Carries(calls[i], "shareCostBasis",
                  IF Sanitized("shareCostBasis") = JsNull THEN JsNumber(0)
                  ELSE Sanitized("shareCostBasis"))

\* generateAllScenarios has returned five scenarios computed with pension
\* enabled from an input that carries no share cost basis
C5_Witness ==
  /\ at = "returned"
  /\ validation.isValid
  /\ Len(calls) = 5
  /\ SanitizedSetting("pension", "enabled") = JsBoolean(TRUE)
  /\ Sanitized("shareCostBasis") = JsNull
  /\ response.ok /\ response.success
  /\ response.scenarios["allSalary"].ok

\* ---- C6 ----

\* the errors a validator contributes
ErrorsOf(res) == IF res.isValid THEN << >> ELSE res.errors

\* the fields of an input its validators reject, by their place in the order
\* of the validators
InvalidFields(input) ==
  {f \in 1 .. Len(FieldResults(input)) : ~FieldResults(input)[f].isValid}

\* the errors of the validators from the one at place f on, in their order
RECURSIVE ErrorsFrom(_, _)
ErrorsFrom(results, f) ==
  IF f > Len(results) THEN << >>
  ELSE ErrorsOf(results[f]) \o ErrorsFrom(results, f + 1)

\* C6: validateCalculationInput runs all six field validators whatever failed
\* before; its errors are the errors of every failing validator, in order, so
\* k invalid fields give at least k messages; isValid holds exactly when the
\* list is empty.
C6_AllErrorsCollected ==
  at # "start" =>
    /\ Len(FieldResults(rawInput)) = 6
    /\ validation.errors = ErrorsFrom(FieldResults(rawInput), 1)
    /\ Len(validation.errors) >= Cardinality(InvalidFields(rawInput))
    /\ validation.isValid <=> (validation.errors = << >>)
    /\ validation.isValid <=> (InvalidFields(rawInput) = {})

\* an input with all six fields invalid has been validated and six messages
\* are reported
C6_Witness ==
  /\ at # "start"
  /\ Cardinality(InvalidFields(rawInput)) = 6
  /\ Len(validation.errors) = 6
  /\ ~validation.isValid

\* ---- C7 ----

\* C7: every operation that takes a zone (maxGrossSalary, salaryScenario,
\* combinationScenario, findOptimalRatio, breakpoints) fails when the zone is
\* not in the rate table, and returns no result computed without a rate.
C7_UnknownZoneFails ==
  ~KnownZone =>
    /\ Ran(maxGrossResult) => ~maxGrossResult.ok
    /\ Ran(salaryResult) => ~salaryResult.ok
    /\ Ran(combinationResult) => ~combinationResult.ok
    /\ Ran(optimizeResult) => ~optimizeResult.ok
    /\ Ran(breakpointsResult) => ~breakpointsResult.ok

\* ---- C8 ----

\* C8: the combination scenario throws for every salaryRatio below 0 or above
\* 100, returns a result for every ratio in [0,100] with a valid zone, and
\* produces no result for a ratio outside [0,100].
C8_RatioRange ==
  Ran(combinationResult) =>
    /\ ~RatioInRange =>
         combinationResult = Thrown("Salary ratio must be between 0 and 100")
    /\ (RatioInRange /\ KnownZone) =>
         /\ combinationResult.ok
         /\ combinationResult.scenarioType = "combination"
         /\ combinationResult.input.salaryRatio = givenRatio
    /\ combinationResult.ok => RatioInRange

\* ---- C9 ----

\* a reported rate is finite, is 0 at profit 0, and otherwise is the quotient
\* of the total tax by the profit, of which the reported total tax is the
\* rounding
RateIsTaxOverProfit(rate, totalTax) ==
  /\ rate.t = "number" /\ rate.k = "fin"
  /\ IF DblIsZero(ProfitGiven) THEN DblIsZero(rate)
     ELSE WithinOne(DblMul(rate, ProfitGiven), totalTax)

RateOfResults(results) ==
  RateIsTaxOverProfit(results.effectiveTaxRate, results.totalTaxPaid)

RateOfEntry(entry) == RateIsTaxOverProfit(entry.effectiveRate, entry.totalTax)

\* C9: every effective tax rate reported is total tax / profit for profit > 0
\* and exactly 0 for profit = 0, in the three scenarios and in every entry of
\* findOptimalRatio's comparison; profit 0 gives no error and no rate that is
\* not finite.
C9_EffectiveRates ==
  /\ Returned(salaryResult) => RateOfResults(salaryResult.results)
  /\ Returned(dividendResult) => RateOfResults(dividendResult.results)
  /\ Returned(combinationResult) => RateOfResults(combinationResult.results)
  /\ (DblIsZero(ProfitGiven) /\ KnownZone /\ givenOptions.t = "object") =>
       pc # "threw"
  /\ pc = "returned" =>
       /\ RateOfEntry(optimizeResult.comparison.optimal)
       /\ RateOfEntry(optimizeResult.comparison.allSalary)
       /\ RateOfEntry(optimizeResult.comparison.allDividend)
       /\ RateOfEntry(optimizeResult.comparison.split5050)

\* ---- C10 ----

\* passes of the search loop with the default step, one per ratio 0..100; no
\* whole step above it makes more
DefaultPasses == 101

\* C10: findOptimalRatio ends after a bounded number of evaluations for every
\* searchStep (0 and negative steps included); with the default step it
\* evaluates the ratios 0..100 in ascending order and records one
\* searchResults entry per ratio.
C10_SearchTerminates ==
  /\ iterations <= DefaultPasses
  /\ (pc = "returned" /\ SearchStepOf(givenOptions) = JsNumber(1)) =>
       /\ iterations = DefaultPasses
       /\ Len(optimizeResult.searchResults) = DefaultPasses
       /\ \A i \in 1 .. DefaultPasses :
            optimizeResult.searchResults[i].salaryRatio = JsNumber(i - 1)

\* ---- C11 ----

\* a zone that is given and is not one of the zones of the rate table
UnknownZone(z) == z.t = "string" /\ z.s # "" /\ z.s \notin ZoneIds

\* a profit that is negative or is text that is not a number
BadProfit(p) ==
  \/ p.t = "number" /\ DblLess(p, JsNumber(0))
  \/ p.t = "string" /\ p.s # "" /\ ToNumber(p).k = "nan"

\* a number outside [0,100]
OutOfRange(x) ==
  x.t = "number" /\ (DblLess(x, JsNumber(0)) \/ DblGreater(x, JsNumber(100)))

\* the request carries an input error in a field its endpoint reads
CarriesInputError(req) ==
  CASE req.endpoint = "calculate" ->
         \/ BadProfit(Property(req.body, "profit"))
         \/ UnknownZone(Property(req.body, "employerZone"))
         \/ OutOfRange(Property(Property(req.body, "withdrawalStrategy"),
                                "salaryRatio"))
         \/ OutOfRange(Property(Property(req.body, "retention"), "percentage"))
    [] req.endpoint \in {"salary", "optimize"} ->
         \/ BadProfit(Property(req.body, "profit"))
         \/ UnknownZone(Property(req.body, "employerZone"))
    [] req.endpoint = "dividend" -> BadProfit(Property(req.body, "profit"))
    [] req.endpoint = "combination" ->
         \/ BadProfit(Property(req.body, "profit"))
         \/ UnknownZone(Property(req.body, "employerZone"))
         \/ OutOfRange(Property(req.body, "salaryRatio"))
    [] req.endpoint = "breakpoints" -> UnknownZone(req.zone)
    [] OTHER -> FALSE

\* C11: on every endpoint a request that carries an input error (unknown
\* zone, salary ratio outside [0,100], negative or non-numeric profit,
\* out-of-range percentage) is answered with status 400 and never with 500.
C11_InputErrorsAnswered400 ==
  (reply # NoReply /\ CarriesInputError(request)) => reply.status = 400

\* ---- C12 ----

\* the employer-contribution rate of the zone of the call
RateGiven == RateOfZone(givenZone)

\* the pension rate of the call, 0 when no pension is included
PensionRateGiven ==
  IF OptionGiven("includePension") = JsBoolean(TRUE)
  THEN ToNumber(OptionGiven("pensionRate"))
  ELSE JsNumber(0)

\* grossSalary + employerAGA + pensionContribution + pensionAGA as returned
EmployerCostSum(res) ==
  DblAdd(DblAdd(DblAdd(res.grossSalary, res.employerAGA), res.pensionContribution),
         res.pensionAGA)

\* S * (1 + agaRate + pensionRate * (1 + agaRate))
CostOfGross(S, agaRate, pensionRate) ==
  DblMul(S, DblAdd(DblAdd(JsNumber(1), agaRate),
                   DblMul(pensionRate, DblAdd(JsNumber(1), agaRate))))

\* what holds of the largest gross salary whatever the budget: the full
\* employer cost of the returned gross salary S is the budget within the
\* rounding of S, the four returned parts (each rounded on its own) add up
\* to the budget within four half units, totalEmployerCost is the budget
\* rounded, and no pension amounts are returned without pension
FillsBudget(res) ==
  /\ res.ok
  /\ DblGeq(res.grossSalary, JsNumber(0))
  /\ WithinOne(CostOfGross(res.grossSalary, RateGiven, PensionRateGiven), ProfitGiven)
  /\ DblLeq(Gap(EmployerCostSum(res), ProfitGiven), JsNumber(2))
  /\ DblLeq(Gap(res.totalEmployerCost, ProfitGiven), JsFraction(1, 2))
  /\ DblIsWhole(ProfitGiven) => DblEq(res.totalEmployerCost, ProfitGiven)
  /\ DblIsZero(PensionRateGiven) =>
       /\ DblIsZero(res.pensionContribution)
       /\ DblIsZero(res.pensionAGA)
       /\ WithinOne(DblAdd(res.grossSalary, res.employerAGA), ProfitGiven)

\* the zone of the call has the rate 0% and no pension is included
NothingOnTop == DblIsZero(RateGiven) /\ DblIsZero(PensionRateGiven)

\* C12 (as stated): for every budget >= 0 and every valid zone,
\* calculateMaxGrossSalary returns a gross salary S whose full employer cost
\* S * (1 + agaRate + pensionRate * (1 + agaRate)) is the budget within
\* rounding, and in the zone with rate 0% without pension the gross salary
\* is the budget exactly and the employer contribution is 0.
C12_MaxGrossSalaryIsBudgetExactly ==
  (Ran(maxGrossResult) /\ KnownZone) =>
    /\ FillsBudget(maxGrossResult)
    /\ NothingOnTop =>
         /\ DblEq(maxGrossResult.grossSalary, ProfitGiven)
         /\ DblIsZero(maxGrossResult.employerAGA)

\* C12 (amended): as above, except that in the zone with rate 0% without
\* pension the gross salary is the budget rounded to the nearest whole unit,
\* which is the budget exactly when the budget is a whole amount.
C12_MaxGrossSalaryFillsBudget ==
  (Ran(maxGrossResult) /\ KnownZone) =>
    /\ FillsBudget(maxGrossResult)
    /\ NothingOnTop =>
         /\ DblEq(maxGrossResult.grossSalary, MathRound(ProfitGiven))
         /\ DblIsWhole(ProfitGiven) => DblEq(maxGrossResult.grossSalary, ProfitGiven)
         /\ DblIsZero(maxGrossResult.employerAGA)

\* the largest gross salary has been computed in the zone with rate 0%
\* without pension for a budget that ends on a half, and is the budget
\* rounded up
C12_Witness ==
  /\ Returned(maxGrossResult)
  /\ KnownZone
  /\ NothingOnTop
  /\ ~DblIsWhole(ProfitGiven)
  /\ DblGreater(maxGrossResult.grossSalary, ProfitGiven)
  /\ maxGrossResult.grossSalary = MathRound(ProfitGiven)

\* ---- C13 ----

\* calculateBracketTax(g).totalBracketTax
BracketTaxOf(g) == calculateBracketTax(g).totalBracketTax

\* the gross salary of the call raised by d units
RaisedSalary(d) == DblAdd(givenSalary, JsNumber(d))

\* the tax of gross salary h is not below the tax of g, and neither is what
\* is left of h after the tax
NotLowerThan(h, taxOfH, g, taxOfG) ==
  /\ DblGeq(taxOfH, taxOfG)
  /\ DblGeq(DblSub(h, taxOfH), DblSub(g, taxOfG))

\* C13: the bracket tax never decreases when the gross salary rises and has no
\* cliff: one more unit of gross salary raises the (rounded) tax by 0 or by 1,
\* which is the highest marginal rate plus the rounding of the two outputs,
\* also when the salary or the salary plus one is a bracket threshold; and
\* neither the tax nor gross salary minus tax decreases when the gross salary
\* rises by one unit, by a few units or by a step of the salary grid.
C13_BracketTaxMonotoneNoCliff ==
  Ran(bracketResult) =>
    /\ DblSub(BracketTaxOf(RaisedSalary(1)), bracketResult.totalBracketTax)
         \in {JsNumber(0), JsNumber(1)}
    /\ \A d \in {1, NearThreshold, GrossStep} :
         NotLowerThan(RaisedSalary(d), BracketTaxOf(RaisedSalary(d)),
                      givenSalary, bracketResult.totalBracketTax)

\* the bracket tax has been computed for a salary that is one unit below a
\* threshold above the first, so that the next unit of salary reaches it
C13_Witness ==
  /\ Ran(bracketResult)
  /\ DblGreater(bracketResult.totalBracketTax, JsNumber(0))
  /\ \E i \in 1 .. Len(BRACKET_TAX_2025) :
       RaisedSalary(1) = BRACKET_TAX_2025[i].threshold

\* ---- C14 ----

\* where the slice of bracket i ends for gross salary g
SliceEnd(g, i) ==
  IF i < Len(BRACKET_TAX_2025) THEN MathMin(g, BRACKET_TAX_2025[i + 1].threshold)
  ELSE g

\* rate_i * max(0, min(g, threshold_{i+1}) - threshold_i), unrounded
SliceTax(g, i) ==
  DblMul(BRACKET_TAX_2025[i].rate,
         MathMax(JsNumber(0), DblSub(SliceEnd(g, i), BRACKET_TAX_2025[i].threshold)))

\* the sum of the slice taxes of brackets 1..i, added in the order of the table
RECURSIVE SliceTaxUpTo(_, _)
SliceTaxUpTo(g, i) ==
  IF i = 0 THEN JsNumber(0)
  ELSE DblAdd(SliceTaxUpTo(g, i - 1), SliceTax(g, i))

\* the thresholds strictly below g, in the order of the table
ThresholdsBelow(g) ==
  SelectSeq([i \in 1 .. Len(BRACKET_TAX_2025) |-> BRACKET_TAX_2025[i].threshold],
            LAMBDA t : DblLess(t, g))

\* entry k of the breakdown is bracket k with the tax of its slice
BreakdownEntryIsSlice(entry, g, k) ==
  /\ entry.step = JsNumber(k)
  /\ entry.rate = BRACKET_TAX_2025[k].rate
  /\ entry.tax = MathRound(SliceTax(g, k))

\* C14: the bracket tax of g is the sum over all brackets of the bracket's
\* rate times the slice of g between its threshold and the next (the last
\* bracket has no upper end), rounded to the nearest unit, never a bracket
\* rate times the whole income; it is 0 at or below the first threshold; and the
\* breakdown lists exactly the brackets whose threshold is strictly below g,
\* each with its slice.
C14_BracketTaxIsSliceSum ==
  Ran(bracketResult) =>
    /\ bracketResult.totalBracketTax =
         MathRound(SliceTaxUpTo(givenSalary, Len(BRACKET_TAX_2025)))
    /\ DblLeq(givenSalary, BRACKET_TAX_2025[1].threshold) =>
         bracketResult.totalBracketTax = JsNumber(0)
    /\ [k \in 1 .. Len(bracketResult.breakdown) |->
          bracketResult.breakdown[k].threshold] = ThresholdsBelow(givenSalary)
    /\ \A k \in 1 .. Len(bracketResult.breakdown) :
         BreakdownEntryIsSlice(bracketResult.breakdown[k], givenSalary, k)

\* the bracket tax has been computed for a salary above the second threshold,
\* where the slice sum is not the top rate reached times the whole salary
C14_Witness ==
  /\ Ran(bracketResult)
  /\ Len(bracketResult.breakdown) >= 2
  /\ DblGreater(bracketResult.totalBracketTax, JsNumber(0))
  /\ bracketResult.totalBracketTax #
       MathRound(DblMul(givenSalary,
                        BRACKET_TAX_2025[Len(bracketResult.breakdown)].rate))

\* ---- C15 ----

\* lo <= rate <= hi for a reported rate and two bounds in hundred-thousandths
RateBetween(rate, lo, hi) ==
  /\ rate.k = "fin"
  /\ DblGeq(rate, JsFraction(lo, 100000))
  /\ DblLeq(rate, JsFraction(hi, 100000))

\* the call of the worked example: profit 1 000 000 in zone 1, no pension,
\* nothing retained
WorkedExampleCall ==
  /\ givenProfit = JsNumber(WorkedProfit)
  /\ givenZone = JsString("1")
  /\ OptionGiven("includePension") = JsBoolean(FALSE)
  /\ OptionGiven("retentionPercentage") = JsNumber(0)

\* C15: the salary scenario of the worked example (profit 1 000 000, zone 1,
\* default options) yields gross salary 876 424, employer contribution
\* 123 576, employee contribution 68 361, bracket tax 41 712, income tax
\* 151 431, net private payout 614 920, total tax 385 080 (each within one
\* unit) and an effective rate that rounds to 38.5%.
C15_WorkedSalaryExample ==
  (Ran(salaryResult) /\ WorkedExampleCall) =>
    /\ salaryResult.ok
    /\ WithinOne(salaryResult.personal.grossSalary, JsNumber(876424))
    /\ WithinOne(salaryResult.company.employerAGA, JsNumber(123576))
    /\ WithinOne(salaryResult.personal.trygdeavgift, JsNumber(68361))
    /\ WithinOne(salaryResult.personal.trinnskatt, JsNumber(41712))
    /\ WithinOne(salaryResult.personal.inntektsskatt, JsNumber(151431))
    /\ WithinOne(salaryResult.results.netPrivatePayout, JsNumber(614920))
    /\ WithinOne(salaryResult.results.totalTaxPaid, JsNumber(385080))
    /\ RateBetween(salaryResult.results.effectiveTaxRate, 38450, 38550)

\* the salary scenario of the worked example has been computed
C15_Witness ==
  /\ Returned(salaryResult)
  /\ WorkedExampleCall
  /\ DblGreater(salaryResult.results.netPrivatePayout, JsNumber(0))

\* ---- C16 ----

\* the dividend scenario of the profit of the worked example with nothing
\* retained and the given share cost basis
WorkedDividendCall(costBasis) ==
  /\ Returned(dividendResult)
  /\ givenProfit = JsNumber(WorkedProfit)
  /\ OptionGiven("retentionPercentage") = JsNumber(0)
  /\ OptionGiven("shareCostBasis") = JsNumber(costBasis)

\* corporate tax 220 000, the given dividend tax and net private payout (each
\* within one unit) and an effective rate between the two bounds
WorkedDividendFigures(res, dividendTax, netPayout, lo, hi) ==
  /\ WithinOne(res.company.corporateTax, JsNumber(220000))
  /\ WithinOne(res.personal.dividendTax, JsNumber(dividendTax))
  /\ WithinOne(res.results.netPrivatePayout, JsNumber(netPayout))
  /\ RateBetween(res.results.effectiveTaxRate, lo, hi)

\* C16 as stated: the dividend scenario of profit 1 000 000 with zero share
\* cost basis and no retention yields corporate tax 220 000, dividend tax
\* 294 584, net private payout 485 416 (each within one unit) and an
\* effective rate that rounds to 51.46%.
C16_WorkedDividendZeroBasis ==
  WorkedDividendCall(0) =>
    WorkedDividendFigures(dividendResult, 294584, 485416, 51455, 51465)

\* C16, amended: those figures are the ones of a share cost basis of 30 000
\* (shielding deduction 1 500); with zero share cost basis the same call
\* yields corporate tax 220 000, dividend tax 295 152, net private payout
\* 484 848 and an effective rate that rounds to 51.52%.
C16_WorkedDividendExample ==
  /\ WorkedDividendCall(WorkedCostBasis) =>
       /\ WithinOne(dividendResult.personal.skjermingsfradrag, JsNumber(1500))
       /\ WorkedDividendFigures(dividendResult, 294584, 485416, 51455, 51465)
  /\ WorkedDividendCall(0) =>
       /\ dividendResult.personal.skjermingsfradrag = JsNumber(0)
       /\ WorkedDividendFigures(dividendResult, 295152, 484848, 51515, 51525)

\* the dividend scenario of the worked example has been computed with the
\* share cost basis of the example
C16_Witness ==
  /\ WorkedDividendCall(WorkedCostBasis)
  /\ DblGreater(dividendResult.personal.skjermingsfradrag, JsNumber(0))
  /\ DblGreater(dividendResult.results.netPrivatePayout, JsNumber(0))

\* ---- C17 ----

\* 0 <= rate < 1 for a reported rate
RateInUnitInterval(rate) ==
  /\ rate.t = "number" /\ rate.k = "fin"
  /\ DblGeq(rate, JsNumber(0))
  /\ DblLess(rate, JsNumber(1))

\* the rate and the payout of a scenario that returned
RateAndPayoutInRange(result) ==
  /\ RateInUnitInterval(result.results.effectiveTaxRate)
  /\ RateInUnitInterval(result.taxSummary.effectiveTaxRate)
  /\ DblGeq(result.results.netPrivatePayout, JsNumber(0))

\* C17: for every profit > 0 up to the validator's upper bound, every valid
\* zone, every retention fraction in [0,1] and every ratio 0..100, the
\* effectiveTaxRate reported by the salary, the dividend and the combination
\* scenario is at least 0 and below 1, and netPrivatePayout is never negative.
C17_RateInUnitIntervalPayoutNonNegative ==
  (DblGreater(ProfitGiven, JsNumber(0)) /\ KnownZone) =>
    /\ Ran(salaryResult) =>
         salaryResult.ok /\ RateAndPayoutInRange(salaryResult)
    /\ Ran(dividendResult) =>
         dividendResult.ok /\ RateAndPayoutInRange(dividendResult)
    /\ (Ran(combinationResult) /\ RatioInRange) =>
         combinationResult.ok /\ RateAndPayoutInRange(combinationResult)

\* the three scenarios have run on a positive profit of which half is
\* retained, the combination at a ratio strictly between 0 and 100, and each
\* reports a positive rate
C17_Witness ==
  /\ DblGreater(ProfitGiven, JsNumber(0)) /\ KnownZone
  /\ OptionGiven("retentionPercentage") = JsFraction(RetentionStep, 10)
  /\ Returned(salaryResult) /\ Returned(dividendResult) /\ Returned(combinationResult)
  /\ givenRatio = JsNumber(MidRatio)
  /\ DblGreater(salaryResult.results.effectiveTaxRate, JsNumber(0))
  /\ DblGreater(dividendResult.results.effectiveTaxRate, JsNumber(0))
  /\ DblGreater(combinationResult.results.effectiveTaxRate, JsNumber(0))

\* ---- C18 ----

SameRate(z1, z2) ==
  EMPLOYER_SOCIAL_SECURITY_RATES[z1] = EMPLOYER_SOCIAL_SECURITY_RATES[z2]

\* z1 has a positive employer-contribution rate and z2 the rate 0%
ZeroRateAgainstPositive(z1, z2) ==
  /\ DblGreater(EMPLOYER_SOCIAL_SECURITY_RATES[z1], JsNumber(0))
  /\ DblIsZero(EMPLOYER_SOCIAL_SECURITY_RATES[z2])

\* combination ratios that are salary-heavy
SalaryHeavy(ratio) ==
  DblGeq(ToNumber(ratio), JsNumber(50)) /\ DblLeq(ToNumber(ratio), JsNumber(100))

\* the gross salaries of two results are on the same side of the threshold
\* of the employee contribution
SameSideOfThreshold(mine, theirs) ==
  DblLeq(mine.personal.grossSalary, SOCIAL_SECURITY_THRESHOLD)
    <=> DblLeq(theirs.personal.grossSalary, SOCIAL_SECURITY_THRESHOLD)

\* the numeric results of two scenarios agree
SameFigures(a, b) ==
  /\ a.company = b.company
  /\ a.personal = b.personal
  /\ a.taxSummary = b.taxSummary
  /\ a.results = b.results

\* the payout of theirs is strictly higher than the payout of mine
PaysMore(theirs, mine) ==
  DblGreater(theirs.results.netPrivatePayout, mine.results.netPrivatePayout)

\* the claim for the result of this zone and the result of another zone
ZonesCompared(mine, other, theirs) ==
  /\ SameRate(givenZone.s, other) => SameFigures(theirs, mine)
  /\ ~SameRate(givenZone.s, other) => ~SameFigures(theirs, mine)
  /\ (DblGreater(ProfitGiven, JsNumber(0))
        /\ ZeroRateAgainstPositive(givenZone.s, other)) =>
       PaysMore(theirs, mine)

\* C18 as stated: two salary scenarios that differ only in zone have
\* identical results when the two zones have the same rate and different
\* results when the rates differ, and for every profit > 0 the zone with rate
\* 0% gives a strictly higher netPrivatePayout than every zone with a
\* positive rate, for the salary scenario and for salary-heavy combinations.
C18_ZoneChangesResultStrictDominance ==
  KnownZone =>
    /\ Returned(salaryResult) =>
         \A other \in ZoneIds :
           ZonesCompared(salaryResult, other,
                         calculateSalaryScenario(givenProfit, JsString(other),
                                                 givenOptions))
    /\ (Returned(combinationResult) /\ SalaryHeavy(givenRatio)) =>
         \A other \in ZoneIds :
           (DblGreater(ProfitGiven, JsNumber(0))
              /\ ZeroRateAgainstPositive(givenZone.s, other)) =>
             PaysMore(calculateCombinationScenario(givenProfit, JsString(other),
                                                   givenRatio, givenOptions),
                      combinationResult)

MinExtraction == 1000

\* at least MinExtraction
Substantial(amount) == DblGeq(amount, JsNumber(MinExtraction))

\* the same for an extracted amount of at least MinExtraction, and with the
\* strict order only between results on the same side of the threshold
ZonesComparedAboveMinimum(mine, other, theirs) ==
  /\ SameRate(givenZone.s, other) => SameFigures(theirs, mine)
  /\ (~SameRate(givenZone.s, other)
        /\ Substantial(mine.company.availableForExtraction)) =>
       ~SameFigures(theirs, mine)
  /\ (ZeroRateAgainstPositive(givenZone.s, other)
        /\ Substantial(mine.company.availableForExtraction)
        /\ SameSideOfThreshold(mine, theirs)) =>
       PaysMore(theirs, mine)
  /\ ZeroRateAgainstPositive(givenZone.s, other) =>
       DblGeq(theirs.personal.grossSalary, mine.personal.grossSalary)

\* C18, amended: two salary scenarios that differ only in zone have identical
\* results when the two zones have the same rate (zones 1 and 1a); when the
\* rates differ and at least MinExtraction is extracted the results differ;
\* the zone with rate 0% never gives a lower gross salary than a zone with a
\* positive rate, and gives a strictly higher netPrivatePayout when at least
\* MinExtraction is extracted and the two gross salaries are on the same side
\* of the employee-contribution threshold; for a combination with a ratio of
\* 50..100 whose salary part is at least MinExtraction the zone with rate 0%
\* gives a strictly higher netPrivatePayout.
C18_ZoneChangesResult ==
  KnownZone =>
    /\ Returned(salaryResult) =>
         \A other \in ZoneIds :
           ZonesComparedAboveMinimum(
             salaryResult, other,
             calculateSalaryScenario(givenProfit, JsString(other), givenOptions))
    /\ (Returned(combinationResult) /\ SalaryHeavy(givenRatio)) =>
         \A other \in ZoneIds :
           (ZeroRateAgainstPositive(givenZone.s, other)
              /\ Substantial(combinationResult.company.salaryPortion)) =>
             PaysMore(calculateCombinationScenario(givenProfit, JsString(other),
                                                   givenRatio, givenOptions),
                      combinationResult)

\* the salary scenario has run in a zone with a positive rate on a profit
\* that is extracted in full and leaves the gross salary under the threshold
\* of the employee contribution, where the zone with rate 0% is above it and
\* pays out less
C18_Witness ==
  /\ Returned(salaryResult)
  /\ givenZone = JsString("4")
  /\ givenProfit = JsNumber(CliffProfit)
  /\ OptionGiven("retentionPercentage") = JsNumber(0)
  /\ DblLeq(salaryResult.personal.grossSalary, SOCIAL_SECURITY_THRESHOLD)
  /\ PaysMore(salaryResult,
              calculateSalaryScenario(givenProfit, JsString("5"), givenOptions))

\* ---- C19 ----

\* the options of this call with nothing retained
WithoutRetention ==
  JsObject([givenOptions.fields EXCEPT !.retentionPercentage = JsNumber(0)])

\* the retention fraction of the call
RetentionGiven == ToNumber(OptionGiven("retentionPercentage"))

\* the salary scenario has run with a retention fraction in (0,1] on a
\* positive profit in a zone of the table
RetainingSalaryCall ==
  /\ Returned(salaryResult)
  /\ DblGreater(ProfitGiven, JsNumber(0))
  /\ KnownZone
  /\ DblGreater(RetentionGiven, JsNumber(0))

\* the retained amount minus the corporate tax on it
RetainedAfterCorporateTax ==
  DblSub(DblMul(ProfitGiven, RetentionGiven),
         DblMul(DblMul(ProfitGiven, RetentionGiven), CORPORATE_TAX_RATE))

\* C19 as stated: for every profit > 0 and valid zone the salary scenario with
\* a retention fraction in (0,1] returns a strictly lower netPrivatePayout
\* than the same call with nothing retained and a retainedInCompany greater
\* than 0, equal to the retained amount minus the corporate tax on it; with
\* everything retained the netPrivatePayout is exactly 0.
C19_RetentionLowersPayout ==
  RetainingSalaryCall =>
    /\ PaysMore(calculateSalaryScenario(givenProfit, givenZone, WithoutRetention),
                salaryResult)
    /\ DblGreater(salaryResult.results.retainedInCompany, JsNumber(0))
    /\ WithinOne(salaryResult.results.retainedInCompany, RetainedAfterCorporateTax)
    /\ DblEq(RetentionGiven, JsNumber(1)) =>
         DblIsZero(salaryResult.results.netPrivatePayout)

\* the comparison with the call that retains nothing, with the strict order
\* only for a retained amount of at least MinExtraction and two gross
\* salaries on the same side of the threshold of the employee contribution
RetentionCompared(mine, without) ==
  /\ DblLeq(mine.personal.grossSalary, without.personal.grossSalary)
  /\ (Substantial(mine.company.retainedEarnings)
        /\ SameSideOfThreshold(mine, without)) =>
       PaysMore(without, mine)
  /\ mine.results.retainedInCompany = MathRound(RetainedAfterCorporateTax)
  /\ DblGeq(DblMul(ProfitGiven, RetentionGiven), JsNumber(1)) =>
       DblGreater(mine.results.retainedInCompany, JsNumber(0))
  /\ DblEq(RetentionGiven, JsNumber(1)) =>
       /\ DblIsZero(mine.results.netPrivatePayout)
       /\ DblIsZero(mine.personal.grossSalary)

\* C19, amended: for every profit > 0 and valid zone the salary scenario with
\* a retention fraction in (0,1] returns a gross salary that is not higher
\* than with nothing retained, a retainedInCompany equal to the retained
\* amount minus the corporate tax on it, rounded, which is greater than 0
\* when at least one unit is retained, and a strictly lower netPrivatePayout
\* when at least MinExtraction is retained and the two gross salaries are on
\* the same side of the employee-contribution threshold; with everything
\* retained the netPrivatePayout is exactly 0.
C19_RetentionShrinksSalary ==
  RetainingSalaryCall =>
    RetentionCompared(salaryResult,
                      calculateSalaryScenario(givenProfit, givenZone, WithoutRetention))

\* the salary scenario has run with a small part retained on a profit whose
\* gross salary the retention brings under the threshold of the employee
\* contribution, and pays out more than with nothing retained
C19_Witness ==
  /\ RetainingSalaryCall
  /\ OptionGiven("retentionPercentage") = JsFraction(1, 20)
  /\ DblGeq(salaryResult.company.retainedEarnings, JsNumber(1))
  /\ DblLeq(salaryResult.personal.grossSalary, SOCIAL_SECURITY_THRESHOLD)
  /\ PaysMore(salaryResult,
              calculateSalaryScenario(givenProfit, givenZone, WithoutRetention))

\* ---- C20 ----

\* a number, or text that is written as one
IsNumeric(v) ==
  \/ v.t = "number" /\ v.k # "nan"
  \/ v.t = "string" /\ TrimStart(v.s) # "" /\ StringToNumber(v.s).k # "nan"

\* lo <= v <= hi for a numeric value
InDomain(v, lo, hi) ==
  /\ IsNumeric(v)
  /\ DblGeq(ToNumber(v), lo)
  /\ DblLeq(ToNumber(v), hi)

\* the value is one of the zone ids, as text or as the number that is
\* written like it
MatchesZoneId(v) ==
  \/ v.t = "string" /\ v.s \in ZoneIds
  \/ v.t = "number" /\ NumberToString(v) \in ZoneIds

\* { isValid: false, value: null } with a non-empty error list
Rejected(result) ==
  /\ ~result.isValid
  /\ result.value = JsNull
  /\ result.errors # << >>

\* C20: the field validators accept exactly their documented domains:
\* validateProfit is valid iff the value is a number or numeric-looking text
\* with 0 <= value <= MAX_PROFIT, validatePercentage iff it is one with
\* 0 <= value <= 100, validateEmployerZone iff the value is one of the seven
\* zone ids; every other value, be it missing, null, empty or not numeric, is
\* rejected with value null and a non-empty error list.
C20_ValidatorsAcceptDocumentedDomains ==
  Ran(fieldResults) =>
    /\ fieldResults.profit.isValid
         <=> InDomain(fieldValue, VALIDATION_LIMITS.MIN_PROFIT,
                      VALIDATION_LIMITS.MAX_PROFIT)
    /\ fieldResults.percentage.isValid
         <=> InDomain(fieldValue, VALIDATION_LIMITS.MIN_PERCENTAGE,
                      VALIDATION_LIMITS.MAX_PERCENTAGE)
    /\ fieldResults.zone.isValid <=> MatchesZoneId(fieldValue)
    /\ ~IsNumeric(fieldValue) =>
         Rejected(fieldResults.profit) /\ Rejected(fieldResults.percentage)
    /\ ~MatchesZoneId(fieldValue) => Rejected(fieldResults.zone)

\* ---- C21 ----

\* the settings validators were called with pension settings switched on
PensionSwitchedOn ==
  /\ Ran(settingsResults.pension)
  /\ Property(givenSettings, "enabled") = JsBoolean(TRUE)

\* lo <= x <= hi on numbers
NumBetween(lo, x, hi) == x.k = "fin" /\ DblGeq(x, lo) /\ DblLeq(x, hi)

\* the rate, read as a number, denotes 2% to 7% in its own unit: a fraction
\* from 0.02 to 0.07 or a percentage from 2 to 7
DenotesLegalRate(rate) ==
  \/ NumBetween(JsFraction(2, 100), ToNumber(rate), JsFraction(7, 100))
  \/ NumBetween(JsNumber(2), ToNumber(rate), JsNumber(7))

\* the rate as a fraction
AsFraction(rate) ==
  IF DblLess(ToNumber(rate), JsNumber(1)) THEN ToNumber(rate)
  ELSE DblDiv(ToNumber(rate), JsNumber(100))

\* the result is valid and carries the rate as a fraction in [0.02, 0.07]
AcceptedAsFraction(result, rate) ==
  /\ result.isValid
  /\ result.errors = << >>
  /\ Property(result.value, "enabled") = JsBoolean(TRUE)
  /\ ToNumber(Property(result.value, "rate")) = AsFraction(rate)
  /\ NumBetween(JsFraction(2, 100), ToNumber(Property(result.value, "rate")),
                JsFraction(7, 100))

\* C21: validatePensionSettings with enabled = true accepts a rate exactly
\* when it denotes 2% to 7% inclusive in its own unit, and then returns it as
\* a fraction in [0.02, 0.07]; every other rate is rejected with value null
\* and an error message.
C21_PensionRateAcceptedExactlyInRange ==
  PensionSwitchedOn =>
    IF DenotesLegalRate(Property(givenSettings, "rate"))
    THEN AcceptedAsFraction(settingsResults.pension, Property(givenSettings, "rate"))
    ELSE /\ ~settingsResults.pension.isValid
         /\ settingsResults.pension.value = JsNull
         /\ Len(settingsResults.pension.errors) = 1

\* ---- C22 ----

\* the settings are absent from the input or carry no enabled flag
SettingsMissing(value) ==
  \/ value.t \in {"undefined", "null"}
  \/ value.t = "object" /\ "enabled" \notin DOMAIN value.fields

\* the share cost basis is absent from the input
ShareCostBasisMissing(value) == value.t \in {"undefined", "null"}

\* valid, without a message, and switched off with the amount 0
ResolvedDisabled(result, amount) ==
  /\ result.isValid
  /\ result.errors = << >>
  /\ result.value =
       JsObject((amount :> JsNumber(0)) @@ [enabled |-> JsBoolean(FALSE)])

\* C22: a missing optional input (pension, retention or share cost basis
\* absent, or pension or retention settings without an enabled flag) gives no
\* error and resolves to the disabled state: pension {enabled: false, rate: 0},
\* retention {enabled: false, percentage: 0}, share cost basis null with a
\* warning.
C22_MissingOptionalResolvesDisabled ==
  /\ (Ran(settingsResults.pension) /\ SettingsMissing(givenSettings)) =>
       ResolvedDisabled(settingsResults.pension, "rate")
  /\ (Ran(settingsResults.retention) /\ SettingsMissing(givenSettings)) =>
       ResolvedDisabled(settingsResults.retention, "percentage")
  /\ (Ran(settingsResults.shareCostBasis) /\ ShareCostBasisMissing(fieldValue)) =>
       /\ DOMAIN settingsResults.shareCostBasis =
            {"isValid", "errors", "value", "warning"}
       /\ settingsResults.shareCostBasis.isValid
       /\ settingsResults.shareCostBasis.errors = << >>
       /\ settingsResults.shareCostBasis.value = JsNull
       /\ settingsResults.shareCostBasis.warning # ""

\* ---- C23 ----

\* the same options with another share cost basis
WithCostBasis(options, costBasis) ==
  JsObject([options.fields EXCEPT !.shareCostBasis = costBasis])

ComparedCostBases == {JsNumber(0), JsNumber(CostBasis), JsNumber(WorkedCostBasis)}

\* the company, personal, taxSummary and results sections of two scenarios agree
SameSections(a, b) ==
  /\ a.ok = b.ok
  /\ a.ok => SameFigures(a, b)

\* the loop of findOptimalRatio about to try the given ratio
SearchAt(ratio) == [SearchStart EXCEPT !.ratio = ratio]

\* gross-up factor * personal rate * the whole distributed dividend
TaxOnWholeDividend(company) ==
  DblMul(DblMul(company.dividendDistributed, DIVIDEND_GROSS_UP_FACTOR),
         PERSONAL_TAX_RATE)

\* the reported dividend tax is the rounding of the tax on the whole dividend;
\* at a ratio that is not a number neither of the two is a number
TaxedOnWholeDividend(dividendTax, wholeTax) ==
  IF wholeTax.k = "nan" THEN dividendTax.k = "nan"
  ELSE WithinOne(dividendTax, wholeTax)

\* C23: calculateCombinationScenario never applies the shareholder allowance:
\* a call that differs only in shareCostBasis returns the same company,
\* personal, taxSummary and results; the dividend tax is gross-up factor times
\* personal rate times the whole distributed dividend; and the pass of
\* findOptimalRatio at that ratio leaves the same optimal ratio behind.
C23_CombinationIgnoresCostBasis ==
  Returned(combinationResult) =>
    /\ \A c \in ComparedCostBases :
         /\ SameSections(combinationResult,
                         calculateCombinationScenario(givenProfit, givenZone, givenRatio,
                                                      WithCostBasis(givenOptions, c)))
         /\ SearchIteration(givenProfit, givenZone, WithCostBasis(givenOptions, c),
                            SearchAt(givenRatio))
              = SearchIteration(givenProfit, givenZone, givenOptions,
                                SearchAt(givenRatio))
    /\ TaxedOnWholeDividend(combinationResult.personal.dividendTax,
                            TaxOnWholeDividend(combinationResult.company))

\* a combination that pays both salary and dividend was computed with a
\* positive share cost basis
C23_Witness ==
  /\ Returned(combinationResult)
  /\ DblGreater(ToNumber(OptionGiven("shareCostBasis")), JsNumber(0))
  /\ givenRatio = JsNumber(MidRatio)
  /\ DblGreater(combinationResult.company.grossSalaryPaid, JsNumber(0))
  /\ DblGreater(combinationResult.personal.dividendTax, JsNumber(0))

\* ---- C24 ----

\* the keys of the scenarios that are present and carry no error
NonErrored(named) == {k \in DOMAIN named : named[k].ok}

\* where a row's scenario stands in the list the table is built from
ListPosition(name) == CHOOSE i \in 1 .. Len(ScenarioList) : ScenarioList[i].name = name

\* the scenario a row was made from
ScenarioOfRow(named, row) == named[ScenarioList[ListPosition(row.name)].key]

\* row i with its payout, its rank and its difference from the first row
RowRanked(named, rows, i) ==
  /\ rows[i].netPayout = ScenarioOfRow(named, rows[i]).results.netPrivatePayout
  /\ rows[i].rank = JsNumber(i)
  /\ rows[i].differenceFromBest = DblSub(rows[1].netPayout, rows[i].netPayout)
  /\ DblGeq(rows[i].differenceFromBest, JsNumber(0))
  /\ DblIsZero(rows[1].netPayout) => rows[i].percentDifferenceFromBest = JsNumber(0)

\* row i stands before row j: it pays more, or the same and comes first in
\* the input
RowBefore(rows, i, j) ==
  \/ DblGreater(rows[i].netPayout, rows[j].netPayout)
  \/ /\ DblEq(rows[i].netPayout, rows[j].netPayout)
     /\ ListPosition(rows[i].name) < ListPosition(rows[j].name)

\* the rows of the table for the scenarios it was built from
TableRanked(named, rows, maxDifference) ==
  /\ {ScenarioList[ListPosition(rows[i].name)].key : i \in 1 .. Len(rows)}
       = NonErrored(named)
  /\ Len(rows) = Cardinality(NonErrored(named))
  /\ \A i \in 1 .. Len(rows) : RowRanked(named, rows, i)
  /\ rows # << >> => DblIsZero(rows[1].differenceFromBest)
  /\ \A i, j \in 1 .. Len(rows) : i < j => RowBefore(rows, i, j)
  /\ rows # << >> =>
       maxDifference = DblSub(rows[1].netPayout, rows[Len(rows)].netPayout)

\* C24: the comparison table holds exactly the scenarios without an error,
\* each with its net payout, sorted by net payout descending with rows of
\* equal payout in input order; row i has rank i and differenceFromBest =
\* first row's payout - its own >= 0 (0 for the first row);
\* percentDifferenceFromBest is 0 when the best payout is 0; maxDifference is
\* best payout - worst payout.
C24_ComparisonTableRankedByPayout ==
  Ran(comparisonTable) =>
    TableRanked(tableScenarios, comparisonTable.rows, comparisonTable.maxDifference)

\* a table was built from scenarios of which one is absent, one carries an
\* error, two tie and the last in the list pays most
C24_Witness ==
  /\ Ran(comparisonTable)
  /\ Len(comparisonTable.rows) = 3
  /\ "allSalary" \notin DOMAIN tableScenarios
  /\ \E k \in DOMAIN tableScenarios : ~tableScenarios[k].ok
  /\ comparisonTable.rows[1].name = ScenarioList[Len(ScenarioList)].name
  /\ comparisonTable.rows[2].netPayout = comparisonTable.rows[3].netPayout
  /\ DblGreater(comparisonTable.maxDifference, JsNumber(0))

\* ---- C25 ----

\* entry i of the search results has the greatest payout and no earlier entry
\* has it
FirstBest(results, i) ==
  /\ \A j \in 1 .. Len(results) : DblLeq(results[j].netPayout, results[i].netPayout)
  /\ \A j \in 1 .. (i - 1) : DblLess(results[j].netPayout, results[i].netPayout)

\* the search step is a whole number above 0
WholeStep(step) == step.t = "number" /\ DblIsWhole(step) /\ DblGreater(step, JsNumber(0))

\* the ratios 0, step, 2 * step, ... up to 100
GridOf(step) == [i \in 1 .. (100 \div step) + 1 |-> JsNumber((i - 1) * step)]

\* the search results are the payouts of the combination scenario at their
\* ratios, and the ratios are the grid of a step that is a whole number
OnGrid(results) ==
  /\ \A i \in 1 .. Len(results) :
       results[i].netPayout =
         calculateCombinationScenario(givenProfit, givenZone, results[i].salaryRatio,
                                      ScenarioOptions(givenOptions)).results.netPrivatePayout
  /\ WholeStep(SearchStepOf(givenOptions)) =>
       [i \in 1 .. Len(results) |-> results[i].salaryRatio]
         = GridOf(DblToInt(SearchStepOf(givenOptions)))

\* a scenario with its name set aside
Unnamed(scenario) == [scenario EXCEPT !.scenarioName = ""]

\* C25: findOptimalRatio returns as optimalRatio the smallest ratio of the
\* search grid whose net private payout is the greatest of the search results
\* (a later ratio of equal payout does not replace it), and optimalScenario is
\* the combination scenario at that ratio.
C25_FirstSeenWins ==
  pc = "returned" =>
    /\ OnGrid(optimizeResult.searchResults)
    /\ \E i \in 1 .. Len(optimizeResult.searchResults) :
         /\ optimizeResult.searchResults[i].salaryRatio = optimizeResult.optimalRatio
         /\ FirstBest(optimizeResult.searchResults, i)
    /\ Unnamed(optimizeResult.optimalScenario) =
         Unnamed(calculateCombinationScenario(givenProfit, givenZone,
                                              optimizeResult.optimalRatio,
                                              ScenarioOptions(givenOptions)))

\* findOptimalRatio returned from a search in which the greatest payout was
\* positive and reached at two ratios
C25_Witness ==
  /\ pc = "returned"
  /\ DblGreater(optimizeResult.optimalScenario.results.netPrivatePayout, JsNumber(0))
  /\ \E i, j \in 1 .. Len(optimizeResult.searchResults) :
       /\ i < j
       /\ FirstBest(optimizeResult.searchResults, i)
       /\ optimizeResult.searchResults[j].netPayout =
            optimizeResult.searchResults[i].netPayout

\* ---- C26 ----

\* nothing up to the threshold, the rate on the whole gross salary above it
ContributionCliff(g) ==
  IF DblLeq(g, SOCIAL_SECURITY_THRESHOLD) THEN JsNumber(0)
  ELSE MathRound(DblMul(g, SOCIAL_SECURITY_RATES.salary))

\* C26: the employee contribution is 0 for a gross salary at or below the
\* threshold and rate * the whole gross salary above it, wherever it is
\* computed: in calculateSocialSecurityContribution, in the salary scenario
\* and in the salary part of the combination scenario at every ratio.
C26_ContributionCliffEverywhere ==
  /\ Returned(salaryResult) =>
       /\ salaryResult.personal.trygdeavgift =
            ContributionCliff(salaryResult.personal.grossSalary)
       /\ calculateSocialSecurityContribution(salaryResult.personal.grossSalary).contribution
            = ContributionCliff(salaryResult.personal.grossSalary)
  /\ Returned(combinationResult) =>
       combinationResult.personal.trygdeavgift =
         ContributionCliff(combinationResult.personal.grossSalary)

\* ---- C27 ----

\* min(max(g * rate, floor), cap, g), unrounded
DeductionOf(g) ==
  MathMin(MathMax(DblMul(g, MINSTEFRADRAG.rate), MINSTEFRADRAG.minimum),
          MathMin(MINSTEFRADRAG.maximum, g))

\* personal rate * max(0, g - deduction - personal allowance), unrounded
TaxAfterDeduction(g, deduction) ==
  DblMul(PERSONAL_TAX_RATE,
         MathMax(JsNumber(0), DblSub(DblSub(g, deduction), PERSONFRADRAG)))

\* the deduction md and the income tax of gross salary g
DeductionClamped(g, md, tax, reported) ==
  /\ md = MathRound(DeductionOf(g))
  /\ DblGeq(md, JsNumber(0)) /\ DblLeq(md, g) /\ DblLeq(md, MINSTEFRADRAG.maximum)
  /\ reported = md
  /\ tax = MathRound(TaxAfterDeduction(g, md))
  /\ DblLeq(g, DblAdd(md, PERSONFRADRAG)) => DblIsZero(tax)

\* C27: for a gross salary g >= 0 the minimum deduction is
\* min(max(g * rate, floor), cap, g), so it is between 0 and g and at most the
\* cap; the income tax is personal rate * max(0, g - deduction - personal
\* allowance), which is 0 when g does not exceed deduction plus allowance, and
\* it does not decrease when g rises.
C27_DeductionClampedTaxMonotone ==
  Ran(deductionResult) =>
    /\ DeductionClamped(givenSalary, deductionResult.minstefradrag.minstefradrag,
                        deductionResult.incomeTax.incomeTax,
                        deductionResult.incomeTax.minstefradrag)
    /\ \A d \in {1, NearThreshold, GrossStep} :
         DblGeq(calculateIncomeTax(RaisedSalary(d)).incomeTax,
                deductionResult.incomeTax.incomeTax)

\* the income tax was computed for a salary whose deduction is the rate share,
\* between the minimum and the maximum, and which is taxed
C27_Witness ==
  /\ Ran(deductionResult)
  /\ DblGreater(deductionResult.minstefradrag.minstefradrag, MINSTEFRADRAG.minimum)
  /\ DblLess(deductionResult.minstefradrag.minstefradrag, MINSTEFRADRAG.maximum)
  /\ DblLess(deductionResult.minstefradrag.minstefradrag, givenSalary)
  /\ DblGreater(deductionResult.incomeTax.incomeTax, JsNumber(0))

\* ---- C28 ----

\* costBasis * allowance rate
AllowanceGiven == DblMul(ToNumber(OptionGiven("shareCostBasis")), SKJERMING_RATE_2025)

\* costBasis * allowance rate covers the whole distributable dividend
AllowanceCoversDividend ==
  DblGeq(AllowanceGiven, dividendResult.company.dividendDistributed)

\* corporate rate * the whole profit, rounded
CorporateTaxOnProfit == MathRound(DblMul(ProfitGiven, CORPORATE_TAX_RATE))

\* C28: in the dividend scenario the allowance applied never exceeds the
\* distributable dividend, the dividend tax is >= 0 and 0 <= net private
\* payout <= distributable dividend; when cost basis * allowance rate covers
\* the distributable dividend the dividend tax is 0 and the net payout is the
\* distributable dividend; the corporate tax is corporate rate * the whole
\* profit whatever is retained.
C28_AllowanceCappedAtDividend ==
  Returned(dividendResult) =>
    /\ DblLeq(dividendResult.personal.skjermingsfradrag,
              dividendResult.company.dividendDistributed)
    /\ DblGeq(dividendResult.personal.dividendTax, JsNumber(0))
    /\ DblGeq(dividendResult.results.netPrivatePayout, JsNumber(0))
    /\ DblLeq(dividendResult.results.netPrivatePayout,
              dividendResult.company.dividendDistributed)
    /\ AllowanceCoversDividend =>
         /\ DblIsZero(dividendResult.personal.dividendTax)
         /\ dividendResult.results.netPrivatePayout
              = dividendResult.company.dividendDistributed
    /\ dividendResult.company.corporateTax = CorporateTaxOnProfit
    /\ dividendResult.taxSummary.corporateTax = CorporateTaxOnProfit

\* a dividend scenario with something retained whose allowance is larger than
\* the positive dividend it pays out
C28_Witness ==
  /\ Returned(dividendResult)
  /\ DblGreater(ToNumber(OptionGiven("retentionPercentage")), JsNumber(0))
  /\ DblGreater(dividendResult.company.dividendDistributed, JsNumber(0))
  /\ DblGreater(AllowanceGiven, dividendResult.company.dividendDistributed)
  /\ dividendResult.personal.skjermingsfradrag
       = dividendResult.company.dividendDistributed

\* ---- C29 ----

\* the summary entry has the payout and the total tax of the scenario
SummaryOf(entry, results) ==
  /\ entry.netPayout = results.netPrivatePayout
  /\ entry.totalTax.k = "fin"
  /\ entry.totalTax = results.totalTaxPaid

\* each savings figure is the payout minus the payout of its baseline
SavingsOf(savings, payout, comparison) ==
  /\ savings.vsAllSalary = DblSub(payout, comparison.allSalary.netPayout)
  /\ savings.vsAllDividend = DblSub(payout, comparison.allDividend.netPayout)
  /\ savings.vsSplit5050 = DblSub(payout, comparison.split5050.netPayout)

\* C29: in every result of findOptimalRatio, comparison.optimal has the net
\* payout and the (finite) total tax of the returned optimalScenario, and each
\* savings figure is that payout minus the payout of its baseline, also when
\* no ratio pays anything (profit 0 or full retention).
C29_SummaryAgreesWithOptimalScenario ==
  pc = "returned" =>
    /\ SummaryOf(optimizeResult.comparison.optimal,
                 optimizeResult.optimalScenario.results)
    /\ SavingsOf(optimizeResult.savings,
                 optimizeResult.optimalScenario.results.netPrivatePayout,
                 optimizeResult.comparison)

\* ---- C30 ----

\* the calls generateAllScenarios made for the scenario of the given key
CallsFor(key) == {i \in 1 .. Len(calls) : calls[i].key = key}

\* the call is the combination scenario with 30% retention at the ratio the
\* optimizer found, or at ratio 50 when the optimizer failed
RetentionCallAtOptimum(call, found) ==
  /\ call.fn = "calculateCombinationScenario"
  /\ Property(call.options, "retentionPercentage") = JsFraction(3, 10)
  /\ found["withRetention"] = Invoke(call)
  /\ call.ratio =
       IF "optimizationDetails" \in DOMAIN found
       THEN found["optimizationDetails"].optimalRatio
       ELSE JsNumber(50)

\* the first scenario pays at least what the second pays
PaysAtLeast(first, second) ==
  (first.ok /\ second.ok) =>
    DblGeq(first.results.netPrivatePayout, second.results.netPrivatePayout)

\* C30: when generateAllScenarios is called with no retention, the
\* withRetention scenario is the combination scenario at the optimal ratio
\* the optimizer found, whatever that ratio is (0 included), with 30%
\* retention; ratio 50 is used only when the optimizer failed; and the
\* optimized scenario pays at least what the 50/50 scenario pays.
C30_RetentionScenarioAtOptimalRatio ==
  (at = "returned" /\ response.ok /\ response.success) =>
    /\ \A i \in CallsFor("withRetention") :
         RetentionCallAtOptimum(calls[i], genScenarios)
    /\ RetentionNotApplied(GenOptions(validation.sanitizedInput)) =>
         CallsFor("withRetention") # {}
    /\ PaysAtLeast(genScenarios["optimized"], genScenarios["split5050"])
====
